---- MODULE Spec2Model ----
(***************************************************************************)
(* Model of the Sentinel data logger (McBrez/MstLab, src/Sentinel).        *)
(*                                                                         *)
(* Part 1: the pure functions of DataAquisition.py (__doCalculation,       *)
(*         processingFunction), computed the way the code computes them.   *)
(* Part 2: the threads of DataAquisition.py: main (start/stop), the        *)
(*         acquisition loop threads, the configuration-switch timer,       *)
(*         direct changeMeasConfig callers and the processing pool.        *)
(***************************************************************************)
EXTENDS Integers, Sequences, FiniteSets, TLC

(***************************************************************************)
(* Bounds of the model.                                                    *)
(***************************************************************************)
\* Number of changeMeasConfig calls (timer firings and direct calls) in a run.
MaxCalls == 2
\* Number of loop iterations (polls) the acquisition loops enter in a run.
MaxPolls == 2
\* Number of threads that call changeMeasConfig directly.
NumCallers == 1
\* Largest number of chunks (samples per channel) of a batch in SpecProc.
MaxChunks == 3
\* Number of objects put on the queue of the database interface in SpecDb.
MaxPuts == 3
\* Number of iterations the writeback loop enters in a run of SpecDb.
MaxWritebacks == 2
\* Number of getConfig calls in a run of SpecConfig.
MaxGets == 2
\* Number of applyMeasConfig calls in a run of SpecGpio.
MaxApplies == 2

(***************************************************************************)
(* Texts are sequences of one-character strings, so that the textual tag   *)
(* replacement of __doCalculation can be computed character by character.  *)
(***************************************************************************)
Digits == <<"0", "1", "2", "3", "4", "5", "6", "7", "8", "9">>

IsDigit(c) == \E d \in 1..10 : Digits[d] = c

DigitVal(c) == (CHOOSE d \in 1..10 : Digits[d] = c) - 1

RECURSIVE NatStr(_)
\* Decimal digits of a natural number.
NatStr(n) == IF n < 10 THEN <<Digits[n + 1]>>
             ELSE NatStr(n \div 10) \o <<Digits[(n % 10) + 1]>>

\* str(value) of a Python float with an integral value v: "3.0", "-2.0".
FloatStr(v) == (IF v < 0 THEN <<"-">> ELSE <<>>)
               \o NatStr(IF v < 0 THEN -v ELSE v) \o <<".", "0">>

MatchAt(s, tag, i) ==
    /\ Len(tag) > 0
    /\ i + Len(tag) - 1 <= Len(s)
    /\ \A k \in 1..Len(tag) : s[i + k - 1] = tag[k]

RECURSIVE ReplaceFrom(_, _, _, _)
ReplaceFrom(s, tag, rep, i) ==
    IF i > Len(s) THEN <<>>
    ELSE IF MatchAt(s, tag, i) THEN rep \o ReplaceFrom(s, tag, rep, i + Len(tag))
    ELSE <<s[i]>> \o ReplaceFrom(s, tag, rep, i + 1)

\* str.replace(tag, rep): every non-overlapping occurrence, left to right.
StrReplace(s, tag, rep) == ReplaceFrom(s, tag, rep, 1)

(***************************************************************************)
(* eval() of the substituted text, for the arithmetic the configured       *)
(* expressions use: float literals d+ or d+.0*, the operators + - * **,    *)
(* unary signs.  Anything else (a tag that was not replaced, a misplaced   *)
(* operator, an empty text) makes eval raise.                              *)
(***************************************************************************)
NoTok == [k |-> "bad", n |-> 0, op |-> ""]

RECURSIVE SkipZeros(_, _)
SkipZeros(s, i) == IF i <= Len(s) /\ s[i] = "0" THEN SkipZeros(s, i + 1) ELSE i

RECURSIVE ScanNat(_, _, _)
\* <<value, next position>> of the digits starting at i.
ScanNat(s, i, acc) ==
    IF i <= Len(s) /\ IsDigit(s[i])
    THEN ScanNat(s, i + 1, 10 * acc + DigitVal(s[i]))
    ELSE <<acc, i>>

\* <<token, next position>> of the token that starts at position i; a
\* token of kind "bad" stands for a text that is not made of literals and
\* operators.
TokenAt(s, i) ==
    IF IsDigit(s[i]) THEN
        LET num == ScanNat(s, i, 0)
            j   == num[2]
            e   == IF j <= Len(s) /\ s[j] = "." THEN SkipZeros(s, j + 1) ELSE j
        IN  IF e <= Len(s) /\ (IsDigit(s[e]) \/ s[e] = ".")
            THEN <<NoTok, e>>
            ELSE <<[k |-> "num", n |-> num[1], op |-> ""], e>>
    ELSE IF s[i] = "*" /\ i < Len(s) /\ s[i + 1] = "*"
         THEN <<[k |-> "op", n |-> 0, op |-> "**"], i + 2>>
    ELSE IF s[i] \in {"+", "-", "*"}
         THEN <<[k |-> "op", n |-> 0, op |-> s[i]], i + 1>>
    ELSE <<NoTok, i + 1>>

RECURSIVE Tokenize(_, _)
\* The tokens of s from position i on; a token of kind "bad" ends them.
Tokenize(s, i) ==
    IF i > Len(s) THEN <<>>
    ELSE LET tk == TokenAt(s, i)
         IN  IF tk[1].k = "bad" THEN <<NoTok>>
             ELSE <<tk[1]>> \o Tokenize(s, tk[2])

ParseFail == [ok |-> FALSE, v |-> 0, pos |-> 0]

\* Token i is the base of a power: atom '**' factor.
IsPower(t, i) ==
    /\ t[i].k = "num"
    /\ i + 1 <= Len(t)
    /\ t[i + 1].k = "op" /\ t[i + 1].op = "**"

RECURSIVE ParseFactor(_, _)
\* factor: ('+' | '-') factor | power, and power: atom ['**' factor].  A
\* power with a negative exponent is no integral value and is not held.
ParseFactor(t, i) ==
    IF i > Len(t) THEN ParseFail
    ELSE IF t[i].k = "num" /\ ~IsPower(t, i)
         THEN [ok |-> TRUE, v |-> t[i].n, pos |-> i + 1]
    ELSE IF IsPower(t, i) \/ (t[i].k = "op" /\ t[i].op \in {"-", "+"}) THEN
        LET r == ParseFactor(t, IF IsPower(t, i) THEN i + 2 ELSE i + 1)
        IN  IF r.ok /\ (IsPower(t, i) => r.v >= 0)
            THEN [ok |-> TRUE,
                  v |-> IF IsPower(t, i) THEN t[i].n ^ r.v
                        ELSE IF t[i].op = "-" THEN 0 - r.v ELSE r.v,
                  pos |-> r.pos]
            ELSE ParseFail
    ELSE ParseFail

RECURSIVE ParseTermRest(_, _, _)
ParseTermRest(t, acc, i) ==
    IF i <= Len(t) /\ t[i].k = "op" /\ t[i].op = "*" THEN
        LET r == ParseFactor(t, i + 1)
        IN  IF r.ok THEN ParseTermRest(t, acc * r.v, r.pos) ELSE ParseFail
    ELSE [ok |-> TRUE, v |-> acc, pos |-> i]

ParseTerm(t, i) ==
    LET f == ParseFactor(t, i)
    IN  IF f.ok THEN ParseTermRest(t, f.v, f.pos) ELSE ParseFail

RECURSIVE ParseExprRest(_, _, _)
ParseExprRest(t, acc, i) ==
    IF i <= Len(t) /\ t[i].k = "op" /\ t[i].op \in {"+", "-"} THEN
        LET r == ParseTerm(t, i + 1)
        IN  IF r.ok
            THEN ParseExprRest(t, IF t[i].op = "+" THEN acc + r.v ELSE acc - r.v, r.pos)
            ELSE ParseFail
    ELSE [ok |-> TRUE, v |-> acc, pos |-> i]

\* expr: term (('+' | '-') term)*, after its first term f.
ParseExprFrom(t, f) ==
    IF f.ok THEN ParseExprRest(t, f.v, f.pos) ELSE ParseFail

\* The tokens are an expression when the parse r ends behind the last one.
EvalResult(t, r) ==
    IF r.ok /\ r.pos = Len(t) + 1
    THEN [ok |-> TRUE, v |-> r.v]
    ELSE [ok |-> FALSE, v |-> 0]

\* The value of a sequence of tokens, or ok = FALSE when they are no
\* expression.
EvalTokens(t) == EvalResult(t, ParseExprFrom(t, ParseTerm(t, 1)))

\* eval(text): [ok |-> TRUE, v |-> value], or ok = FALSE when eval raises.
Eval(s) == EvalTokens(Tokenize(s, 1))

RECURSIVE SubstituteTags(_, _, _, _)
\* The loop of __doCalculation over channelDict.items(), from entry i on.
SubstituteTags(expr, channelDict, channelValues, i) ==
    IF i > Len(channelDict) THEN expr
    ELSE SubstituteTags(
            StrReplace(expr, channelDict[i][2], FloatStr(channelValues[channelDict[i][2]])),
            channelDict, channelValues, i + 1)

\* DataAquisition.__doCalculation: channelDict is the sequence of
\* <<channel number, tag>> in insertion order, channelValues maps tag to value.
doCalculation(expr, channelDict, channelValues) ==
    Eval(SubstituteTags(expr, channelDict, channelValues, 1))

(***************************************************************************)
(* Timestamps.  timestamp.timestamp() and the reconstructed timestamps are *)
(* Python floats.  Time is counted in units of 1/UnitsPerSecond seconds;   *)
(* the floats near the capture timestamp are the multiples of FloatUlp     *)
(* units, and a float subtraction yields the float nearest to the exact    *)
(* difference (IEEE 754 round to nearest, ties to even).  The offset       *)
(* 1.0 / currScanRate is far smaller than the timestamp and is held with   *)
(* its own, much finer spacing: it is taken as exact.                      *)
(***************************************************************************)
UnitsPerSecond == 12

FloatUlp == 2

\* The float nearest to the exact value x.
RoundToFloat(x) ==
    LET lo == x - (x % FloatUlp)
        hi == lo + FloatUlp
    IN  IF x = lo THEN x
        ELSE IF 2 * (x - lo) < FloatUlp THEN lo
        ELSE IF 2 * (x - lo) > FloatUlp THEN hi
        ELSE IF (lo \div FloatUlp) % 2 = 0 THEN lo ELSE hi

\* A subtraction written as an addition.
FloatAdd(t, o) == RoundToFloat(t + o)

\* reproducedTimestamp - offset, in floats.
FloatSub(t, o) == RoundToFloat(t - o)

\* An offset computed by the integer division 1 / currScanRate.
SampleOffsetIntegerDivision(currScanRate) == 0

\* offset = 1.0 / currScanRate, in time units.
SampleOffset(currScanRate) == UnitsPerSecond \div currScanRate

\* The dict update d[key] = value on a dict kept as a function.
DictPut(d, key, value) == (key :> value) @@ d

EmptyDict == << >>

\* currMeasurementConfigName + "_" + name
MeasurementName(currMeasurementConfigName, name) ==
    currMeasurementConfigName \o "_" \o name

\* The tags of currChannelDict.values(), reversed.
ReversedTags(currChannelDict) ==
    [i \in 1..Len(currChannelDict) |->
        currChannelDict[Len(currChannelDict) + 1 - i][2]]

RECURSIVE PopChannelValues(_, _, _, _)
\* for chanTag in reversedList: channelValues[chanTag] = data.pop()
\* The caller makes sure that data holds an element for every tag.
PopChannelValues(data, reversedList, i, channelValues) ==
    IF i > Len(reversedList) THEN channelValues
    ELSE PopChannelValues(
            SubSeq(data, 1, Len(data) - 1), reversedList, i + 1,
            DictPut(channelValues, reversedList[i], data[Len(data)]))

RECURSIVE RunCalculations(_, _, _, _, _, _, _)
\* The loop over currCalculations.items() for one chunk, from entry i on:
\* resultDict is the sequence of <<measurementName, valueDict>> in
\* insertion order.  A calculation that raises ends the loop.
RunCalculations(resultDict, currCalculations, i, currChannelDict, channelValues, reproducedTimestamp, raised) ==
    IF raised \/ i > Len(currCalculations)
    THEN [raised |-> raised, resultDict |-> resultDict]
    ELSE LET value == doCalculation(currCalculations[i][2], currChannelDict,
                                    channelValues)
         IN  IF ~value.ok
             THEN [raised |-> TRUE, resultDict |-> resultDict]
             ELSE RunCalculations(
                    [resultDict EXCEPT ![i] =
                        <<@[1], DictPut(@[2], reproducedTimestamp, value.v)>>],
                    currCalculations, i + 1, currChannelDict, channelValues,
                    reproducedTimestamp, FALSE)

RECURSIVE ProcessChunks(_, _, _, _, _, _, _)
\* The while loop "while len(data) > 0" of processingFunction.  stamps is
\* the sequence of the values reproducedTimestamp took, one per iteration;
\* loopCount is its length.
ProcessChunks(data, reproducedTimestamp, offset, resultDict, stamps, currCalculations, currChannelDict) ==
    IF Len(data) = 0
    THEN [raised |-> FALSE, resultDict |-> resultDict, stamps |-> stamps]
    ELSE IF Len(data) < Len(currChannelDict)
         \* data.pop() from an empty list raises IndexError.
    THEN [raised |-> TRUE, resultDict |-> resultDict, stamps |-> stamps]
    ELSE LET channelValues ==
                PopChannelValues(data, ReversedTags(currChannelDict), 1, EmptyDict)
             rest == SubSeq(data, 1, Len(data) - Len(currChannelDict))
             stamp == FloatSub(reproducedTimestamp, offset)
             calc == RunCalculations(resultDict, currCalculations, 1,
                                     currChannelDict, channelValues, stamp, FALSE)
         IN  IF calc.raised
             THEN [raised |-> TRUE, resultDict |-> calc.resultDict,
                   stamps |-> stamps]
             ELSE ProcessChunks(rest, stamp, offset, calc.resultDict,
                                Append(stamps, stamp), currCalculations,
                                currChannelDict)

\* DataAquisition.processingFunction up to the hand-over: the entries it
\* puts on the queue, in order.  An exception other than KeyboardInterrupt
\* leaves the function before the first put: nothing is delivered.
\* currCalculations is the sequence of <<name, expr>>, currChannelDict the
\* sequence of <<channel number, tag>>, both in dict order.
processingFunction(timestamp, data, currCalculations, currMeasurementConfigName, currChannelDict, currScanRate) ==
    IF currScanRate = 0
         \* 1.0 / currScanRate raises ZeroDivisionError.
    THEN [raised |-> TRUE, entries |-> <<>>, stamps |-> <<>>]
    ELSE LET resultDict ==
                [i \in 1..Len(currCalculations) |->
                    <<MeasurementName(currMeasurementConfigName,
                                      currCalculations[i][1]), EmptyDict>>]
             run == ProcessChunks(data, timestamp, SampleOffset(currScanRate),
                                  resultDict, <<>>, currCalculations,
                                  currChannelDict)
         IN  IF run.raised
             THEN [raised |-> TRUE, entries |-> <<>>, stamps |-> run.stamps]
             ELSE [raised |-> FALSE, entries |-> run.resultDict,
                   stamps |-> run.stamps]

(***************************************************************************)
(* Part 2: the configuration and the state of a run.                       *)
(***************************************************************************)
\* The measurement configurations of the configuration file
\* (SentinelConfig.JSON_MEASUREMENT_CONFIG), longest list of the model.
MeasurementConfigs ==
    << [ConfigName   |-> "c0",
        ScanRate     |-> 4,
        Channels     |-> << <<0, <<"A">> >>, <<1, <<"B">> >> >>,
        Measurements |-> << <<"sum", <<"A", "+", "B">> >> >>],
       [ConfigName   |-> "c1",
        ScanRate     |-> 2,
        Channels     |-> << <<0, <<"A">> >> >>,
        Measurements |-> << <<"d", <<"A", "*", "2">> >> >>] >>

\* The end symbol stop() puts on the database queue: the integer -1,
\* written as a tuple of its own so that it can be compared with the
\* (measName, valueDict) tuples of the queue.
EndSymbol == <<-1>>

\* The processes that call changeMeasConfig: 0 is the thread of the
\* configuration-switch timer, 1..NumCallers call it directly.
TimerProc == 0

Callers == 1..NumCallers

Procs == {TimerProc} \cup Callers

VARIABLES
    measConfCount,          \* len(self.__measurementConfig)
    mainPc,                 \* position of the main thread in start() / stop()
    joinTarget,             \* the thread object stop() joins
    runThread,              \* self.__runThread
    activeMeasConfigIdx,    \* self.__activeMeasConfigIdx
    currCfg,                \* index of the configuration held in self.__curr*
    workerThread,           \* self.__workerThread: an index into threads
    threads,                \* every acquisition thread object created so far
    changeMeasConfSem,      \* value of self.__changeMeasConfSem
    timerState,             \* the Timer object in self.__confChangeTimer
    procs,                  \* position and argument of each changeMeasConfig caller
    poolRunning,            \* self.__processingWorkerPool accepts work
    tasks,                  \* outstanding processingFunction calls of the pool
    gpioQueue,              \* contents of the queue to the GPIO handler
    dbIfQueue,              \* contents of the queue to the database interface
    calls,                  \* history: changeMeasConfig calls issued
    polls,                  \* history: loop iterations entered
    callLog,                \* history: steps of the calls that hold the lock
    pPc, pIn, pOut,         \* a single processingFunction call (SpecProc)
    dbRunThread,            \* DatabaseInterface.__runThread
    dbMainPc,               \* position of the caller of DatabaseInterface.start/stop
    listener,               \* the listener thread: position in storeFunction, obj
    writerPc,               \* the worker thread: position in __workerWriteback
    valueCache,             \* self.valueCache: measurement -> {timestamp: value}
    writeSemaphore,         \* value of self.__writeSemaphore
    pending,                \* the value lists inserted and not yet committed
    committed,              \* the committed insertions: <<file, table -> values>>
    dbFile,                 \* number of database files opened so far
    writeCycleCounter,      \* self.__writeCycleCounter
    changeIntervall,        \* self.__changeIntervall: writebacks per database file
    mergedLog,              \* history: fragments merged since the cache was cleared
    puts,                   \* history: objects put on the queue (SpecDb)
    writebacks,             \* history: iterations of the writeback loop entered
    sentPc,                 \* position of Sentinel.main
    configFile,             \* what the configuration file is: missing, ...
    configValid,            \* SentinelConfig.__valid
    configDict,             \* SentinelConfig.__configDict: domain -> object
    heap,                   \* the dicts and lists of the configuration
    handedOut,              \* the values getConfig has returned to callers
    gpioStarted,            \* GpioHandler.start() has set up the outputs
    outputStateMachine,     \* GpioHandler.__outputStateMachine
    activemeasConfIdx,      \* GpioHandler.__activemeasConfIdx
    outputStateSem,         \* value of GpioHandler.__outputStateSem
    gpioOut,                \* level of each output pin, by its config index
    gpioThreads             \* the applyMeasConfig callers and the Timer threads

daqVars == <<measConfCount, mainPc, joinTarget, runThread, activeMeasConfigIdx,
             currCfg, workerThread, threads, changeMeasConfSem, timerState,
             procs, poolRunning, tasks, gpioQueue, dbIfQueue, calls, polls,
             callLog>>

procVars == <<pPc, pIn, pOut>>

gpioVars == <<outputStateMachine, activemeasConfIdx, outputStateSem, gpioOut,
              gpioThreads>>

dbVars == <<dbRunThread, dbMainPc, listener, writerPc, valueCache,
            writeSemaphore, pending, committed, dbFile, writeCycleCounter,
            changeIntervall, mergedLog, puts, writebacks, gpioVars>>

sysVars == <<sentPc, configFile, configValid, configDict, heap, handedOut,
             gpioStarted>>

vars == <<daqVars, procVars, dbVars, sysVars>>

\* A thread object as threading.Thread() returns it.
NewThread == [pc |-> "new", scan |-> "none", lastRead |-> "none",
              cleared |-> FALSE, extra |-> 0]

\* The thread object of a thread that has left its loop (the history kept
\* for a running loop ends with it).
Ended(t, pc, scan) == [NewThread EXCEPT !.pc = pc, !.scan = scan]

\* A thread that has been started and has not ended.
Alive(t) == t.pc \notin {"new", "done", "died"}

\* Thread.join() returns for these.
Terminated(t) == t.pc \in {"done", "died"}

\* History: remember for every running loop that the run flag was cleared.
MarkCleared(ths) ==
    [i \in DOMAIN ths |->
        IF Alive(ths[i]) THEN [ths[i] EXCEPT !.cleared = TRUE] ELSE ths[i]]

\* No call of processingFunction is in progress.
ProcIdle == pPc = "idle" /\ pIn = << >> /\ pOut = << >>

\* DataAquisition.__init__
DaqInit ==
    /\ measConfCount \in 1..Len(MeasurementConfigs)
    /\ mainPc = "m133"
    /\ joinTarget = 0
    /\ runThread = FALSE
    /\ activeMeasConfigIdx = 0
    /\ currCfg = 0
    /\ workerThread = 1
    /\ threads = <<NewThread>>
    /\ changeMeasConfSem = 1
    /\ timerState = "new"
    /\ procs = [p \in Procs |-> [pc |-> "idle", arg |-> 0]]
    /\ poolRunning = TRUE
    /\ tasks = {}
    /\ gpioQueue = << >>
    /\ dbIfQueue = << >>
    /\ calls = 0
    /\ polls = 0
    /\ callLog = << >>

\* What the steps of the database interface leave alone; the change
\* interval is read from the configuration once, in __init__.
otherVars == <<measConfCount, mainPc, joinTarget, runThread,
               activeMeasConfigIdx, currCfg, workerThread, threads,
               changeMeasConfSem, timerState, procs, poolRunning, tasks,
               gpioQueue, calls, polls, callLog, procVars, sysVars,
               changeIntervall, gpioVars>>

\* GpioHandler, lines 65-73: the list indices of the transistors' pins and
\* the states of the output state machine.
IDX_TRANS_A == 0
IDX_TRANS_B == 1
IDX_TRANS_C == 2
IDX_TRANS_D == 3
OUTPUT_STATE_IDLE == 0
OUTPUT_STATE_DRIVE == 1
OUTPUT_STATE_FLYBACK == 2

OutputPins == {IDX_TRANS_A, IDX_TRANS_B, IDX_TRANS_C, IDX_TRANS_D}

\* GpioHandler.__init__, lines 75-115, and start, lines 117-127: the state
\* machine is idle, the semaphore is free and every output is low.
GpioObject ==
    /\ outputStateMachine = OUTPUT_STATE_IDLE
    /\ activemeasConfIdx = 0
    /\ outputStateSem = 1
    /\ gpioOut = [p \in OutputPins |-> FALSE]
    /\ gpioThreads = << >>

\* Sentinel.__init__, lines 27-46: no object has been made yet; the
\* configuration object of the components' own specifications is valid.
SysIdle ==
    /\ sentPc = "idle"
    /\ configFile = "valid"
    /\ configValid = "valid"
    /\ configDict = << >>
    /\ heap = << >>
    /\ handedOut = << >>
    /\ gpioStarted = FALSE
    /\ GpioObject

\* The change interval of the configuration the runs of the database
\* interface are made with: a new file every second writeback.
ConfiguredChangeInt == 2

\* DatabaseInterface.__init__, lines 36-101: the object as constructed from
\* a configuration with the change interval changeInt.
DbObjectWith(changeInt) ==
    /\ changeIntervall = changeInt
    /\ dbRunThread = FALSE
    /\ listener = [pc |-> "new", obj |-> << >>]
    /\ writerPc = "new"
    /\ valueCache = EmptyDict
    /\ writeSemaphore = 1
    /\ pending = EmptyDict
    /\ committed = << >>
    /\ dbFile = 0
    /\ writeCycleCounter = 0
    /\ mergedLog = << >>
    /\ puts = 0
    /\ writebacks = 0

DbObject == DbObjectWith(ConfiguredChangeInt)

\* The database interface is constructed and start() can be called.
DbInit == DbObject /\ dbMainPc = "d117"

Init == DaqInit /\ ProcIdle /\ DbInit /\ SysIdle

(***************************************************************************)
(* The main thread: DataAquisition.start(), then (after input() returns)   *)
(* DataAquisition.stop().                                                  *)
(***************************************************************************)
\* Timer.cancel(): a timer that has not fired yet never calls its function.
Cancel(state) == IF state \in {"new", "armed"} THEN "cancelled" ELSE state

\* Timer.start(): the timer waits for its interval unless it was cancelled.
Arm(state) == IF state = "cancelled" THEN "cancelled" ELSE "armed"

\* start(), lines 133-134: self.__runThread = True, and the first
\* acquisition thread is started.
StartThread ==
    /\ mainPc = "m133"
    /\ runThread' = TRUE
    /\ threads' = [threads EXCEPT ![workerThread].pc = "s151"]
    /\ mainPc' = "m137"
    /\ UNCHANGED <<measConfCount, joinTarget, activeMeasConfigIdx, currCfg,
                   workerThread, changeMeasConfSem, timerState, procs,
                   poolRunning, tasks, gpioQueue, dbIfQueue, calls, polls,
                   callLog, procVars, dbVars, sysVars>>

\* A start() that starts the timer whatever is configured.
SwitchTimerWantedAlways == TRUE

\* start(), line 141: the timer is wanted with more than one configuration.
SwitchTimerWanted == measConfCount > 1

\* start(), lines 137-142: the index is put on the GPIO queue, and the timer
\* is started for more than one configuration; start() returns.
StartNotifyGpio ==
    /\ mainPc = "m137"
    /\ gpioQueue' = Append(gpioQueue, activeMeasConfigIdx)
    /\ timerState' = IF SwitchTimerWanted THEN Arm(timerState) ELSE timerState
    /\ mainPc' = "input"
    /\ UNCHANGED <<measConfCount, joinTarget, runThread, activeMeasConfigIdx,
                   currCfg, workerThread, threads, changeMeasConfSem, procs,
                   poolRunning, tasks, dbIfQueue, calls, polls, callLog, procVars, dbVars, sysVars>>

\* stop(), line 367: self.__confChangeTimer.cancel()
StopCancelTimer ==
    /\ mainPc = "input"
    /\ timerState' = Cancel(timerState)
    /\ mainPc' = "m368"
    /\ UNCHANGED <<measConfCount, joinTarget, runThread, activeMeasConfigIdx,
                   currCfg, workerThread, threads, changeMeasConfSem, procs,
                   poolRunning, tasks, gpioQueue, dbIfQueue, calls, polls,
                   callLog, procVars, dbVars, sysVars>>

\* stop(), line 368: self.__runThread = False
StopClearFlag ==
    /\ mainPc = "m368"
    /\ runThread' = FALSE
    /\ threads' = MarkCleared(threads)
    /\ mainPc' = "m369"
    /\ UNCHANGED <<measConfCount, joinTarget, activeMeasConfigIdx, currCfg,
                   workerThread, changeMeasConfSem, timerState, procs,
                   poolRunning, tasks, gpioQueue, dbIfQueue, calls, polls,
                   callLog, procVars, dbVars, sysVars>>

\* stop(), line 369: join() is called on the thread object that
\* self.__workerThread holds now; joining a thread that was never started
\* raises RuntimeError, which leaves stop().
StopJoinCall ==
    /\ mainPc = "m369"
    /\ joinTarget' = workerThread
    /\ mainPc' = IF threads[workerThread].pc = "new" THEN "crashed" ELSE "m369w"
    /\ UNCHANGED <<measConfCount, runThread, activeMeasConfigIdx, currCfg,
                   workerThread, threads, changeMeasConfSem, timerState, procs,
                   poolRunning, tasks, gpioQueue, dbIfQueue, calls, polls,
                   callLog, procVars, dbVars, sysVars>>

\* stop(), line 369: join() returns when that thread has ended.
StopJoinReturn ==
    /\ mainPc = "m369w"
    /\ Terminated(threads[joinTarget])
    /\ mainPc' = "m370"
    /\ joinTarget' = 0
    /\ UNCHANGED <<measConfCount, runThread, activeMeasConfigIdx,
                   currCfg, workerThread, threads, changeMeasConfSem, timerState,
                   procs, poolRunning, tasks, gpioQueue, dbIfQueue, calls, polls,
                   callLog, procVars, dbVars, sysVars>>

\* stop(), lines 370-373: Pool.terminate() stops the worker processes at
\* once, the calls they had not finished are lost; then the end symbol is
\* put on the database queue and stop() returns.
StopTerminatePool ==
    /\ mainPc = "m370"
    /\ poolRunning' = FALSE
    /\ tasks' = {}
    /\ dbIfQueue' = Append(dbIfQueue, EndSymbol)
    /\ mainPc' = "stopped"
    /\ UNCHANGED <<measConfCount, joinTarget, runThread, activeMeasConfigIdx,
                   currCfg, workerThread, threads, changeMeasConfSem, timerState,
                   procs, gpioQueue, calls, polls, callLog, procVars, dbVars, sysVars>>

(***************************************************************************)
(* An acquisition thread: DataAquisition.__scanningFunction.               *)
(***************************************************************************)
\* datetime.now() of the poll with number batch, as a float.
ClockAt(batch) == 100 + UnitsPerSecond * batch

\* acquiredData.data of a poll: one sample of every scanned channel.
DeviceData(cfg, batch) ==
    [i \in 1..Len(MeasurementConfigs[cfg + 1].Channels) |-> batch + i]

\* Lines 150-182: the active configuration is copied into self.__curr*,
\* the device is claimed and the continuous scan is started.
ScanStartDevice(t) ==
    /\ threads[t].pc = "s151"
    /\ currCfg' = activeMeasConfigIdx
    /\ threads' = [threads EXCEPT ![t].pc = "s186", ![t].scan = "active"]
    /\ UNCHANGED <<measConfCount, mainPc, joinTarget, runThread,
                   activeMeasConfigIdx, workerThread, changeMeasConfSem,
                   timerState, procs, poolRunning, tasks, gpioQueue, dbIfQueue,
                   calls, polls, callLog, procVars, dbVars, sysVars>>

\* A loop that never looks at the run flag after an overrun.
LoopConditionSkippedAfterOverrun(t) ==
    runThread \/ threads[t].lastRead \in {"hw", "buf"}

\* Line 186: while self.__runThread
LoopCondition(t) == runThread

\* Line 186: the loop is entered again or left.  The number of iterations
\* of a run is bounded by MaxPolls.
ScanCheck(t) ==
    /\ threads[t].pc = "s186"
    /\ IF LoopCondition(t)
       THEN /\ polls < MaxPolls
            /\ polls' = polls + 1
            /\ threads' = [threads EXCEPT ![t].pc = "s193",
                                           ![t].lastRead = "none"]
       ELSE /\ polls' = polls
            /\ threads' = [threads EXCEPT ![t] = Ended(@, "s223", @.scan)]
    /\ UNCHANGED <<measConfCount, mainPc, joinTarget, runThread,
                   activeMeasConfigIdx, currCfg, workerThread, changeMeasConfSem,
                   timerState, procs, poolRunning, tasks, gpioQueue, dbIfQueue,
                   calls, callLog, procVars, dbVars, sysVars>>

\* An overrun check without its "continue".
AfterReadFallThrough(outcome) == "s218"

\* Lines 197-203: an overrun is reported and the iteration ends.
AfterRead(outcome) == IF outcome \in {"hw", "buf"} THEN "s186" ELSE "s218"

\* Lines 190-220: sleep, a_in_scan_read, the overrun checks and, without
\* overrun, the hand-over of the batch to the pool with the values of
\* self.__curr*.  apply_async on a terminated pool raises ValueError, which
\* ends the thread before it stops the scan.
ScanRead(t) ==
    /\ threads[t].pc = "s193"
    /\ \E outcome \in {"ok", "hw", "buf"} :
          LET read == [threads[t] EXCEPT
                          !.pc = "s186",
                          !.lastRead = outcome,
                          !.extra = IF threads[t].cleared THEN @ + 1 ELSE @]
          IN  IF AfterRead(outcome) = "s186"
              THEN /\ tasks' = tasks
                   /\ threads' = [threads EXCEPT ![t] = read]
              ELSE IF poolRunning
              THEN /\ tasks' = tasks \cup
                                {[batch |-> polls, cfg |-> currCfg, put |-> 0]}
                   /\ threads' = [threads EXCEPT ![t] = read]
              ELSE /\ tasks' = tasks
                   /\ threads' = [threads EXCEPT
                                     ![t] = Ended(read, "died", read.scan)]
    /\ UNCHANGED <<measConfCount, mainPc, joinTarget, runThread,
                   activeMeasConfigIdx, currCfg, workerThread, changeMeasConfSem,
                   timerState, procs, poolRunning, gpioQueue, dbIfQueue, calls,
                   polls, callLog, procVars, dbVars, sysVars>>

\* Lines 222-224: a_in_scan_stop, a_in_scan_cleanup; the thread ends.
ScanStop(t) ==
    /\ threads[t].pc = "s223"
    /\ threads' = [threads EXCEPT ![t] = Ended(@, "done", "released")]
    /\ UNCHANGED <<measConfCount, mainPc, joinTarget, runThread,
                   activeMeasConfigIdx, currCfg, workerThread, changeMeasConfSem,
                   timerState, procs, poolRunning, tasks, gpioQueue, dbIfQueue,
                   calls, polls, callLog, procVars, dbVars, sysVars>>

(***************************************************************************)
(* A worker process of the pool runs processingFunction on one batch and   *)
(* puts its entries on the database queue one by one.                      *)
(***************************************************************************)
\* What processingFunction returns for every batch the loop can dispatch.
BatchEntries ==
    [c \in 0..(Len(MeasurementConfigs) - 1) |->
        [b \in 1..MaxPolls |->
            LET cfg == MeasurementConfigs[c + 1]
            IN  processingFunction(ClockAt(b), DeviceData(c, b),
                                   cfg.Measurements, cfg.ConfigName,
                                   cfg.Channels, cfg.ScanRate).entries]]

\* A task that looks up the configuration when it runs.
TaskConfigLive(task) == activeMeasConfigIdx

\* Lines 208-215: the arguments of a task are the values self.__curr* had
\* at the dispatch.
TaskConfig(task) == task.cfg

TaskEntries(task) == BatchEntries[TaskConfig(task)][task.batch]

\* Lines 316-317: queue.put_nowait((measName, valueDict)) for the next of
\* the entries of a task; a task that has put them all is finished.
PutNextEntry(task, entries) ==
    IF task.put < Len(entries)
    THEN /\ dbIfQueue' = Append(dbIfQueue, entries[task.put + 1])
         /\ tasks' = IF task.put + 1 = Len(entries)
                     THEN tasks \ {task}
                     ELSE (tasks \ {task}) \cup {[task EXCEPT !.put = @ + 1]}
    ELSE /\ dbIfQueue' = dbIfQueue
         /\ tasks' = tasks \ {task}

\* A worker process of the pool goes on with a task.
PoolPut(task) ==
    /\ task \in tasks
    /\ PutNextEntry(task, TaskEntries(task))
    /\ UNCHANGED <<measConfCount, mainPc, joinTarget, runThread,
                   activeMeasConfigIdx, currCfg, workerThread, threads,
                   changeMeasConfSem, timerState, procs, poolRunning, gpioQueue,
                   calls, polls, callLog, procVars, dbVars, sysVars>>

(***************************************************************************)
(* DataAquisition.changeMeasConfig(measConfIdx), called by process p with  *)
(* measConfIdx = procs[p].arg.  callLog records what each step did.        *)
(***************************************************************************)
\* A changeMeasConfig that restarts the loop before it waits for the old one.
AfterStepRestartBeforeJoin(pc) ==
    CASE pc = "c332" -> "c335"
      [] pc = "c335" -> "c351"
      [] pc = "c351" -> "c356"
      [] pc = "c356" -> "c336"
      [] pc = "c336" -> "c344"
      [] pc = "c344" -> "c348"
      [] pc = "c348" -> "c360"

\* A changeMeasConfig that does not notify the GPIO handler.
AfterStepWithoutRelay(pc) ==
    CASE pc = "c332" -> "c335"
      [] pc = "c335" -> "c336"
      [] pc = "c336" -> "c344"
      [] pc = "c344" -> "c351"
      [] pc = "c348" -> "c351"
      [] pc = "c351" -> "c356"
      [] pc = "c356" -> "c360"

\* A changeMeasConfig that notifies the GPIO handler before it sets the
\* index.
AfterStepRelayBeforeIndex(pc) ==
    CASE pc = "c332" -> "c335"
      [] pc = "c335" -> "c336"
      [] pc = "c336" -> "c348"
      [] pc = "c348" -> "c344"
      [] pc = "c344" -> "c351"
      [] pc = "c351" -> "c356"
      [] pc = "c356" -> "c360"

\* The statement that follows the statement at pc (lines 332-360).
AfterStep(pc) ==
    CASE pc = "c332" -> "c335"
      [] pc = "c335" -> "c336"
      [] pc = "c336" -> "c344"
      [] pc = "c344" -> "c348"
      [] pc = "c348" -> "c351"
      [] pc = "c351" -> "c356"
      [] pc = "c356" -> "c360"

\* A semaphore whose acquire never blocks.
SemAvailableAlways == TRUE

\* Line 332: Semaphore.acquire() blocks while the value is 0.
SemAvailable == changeMeasConfSem > 0

\* Line 336: Thread.join() without timeout returns when thread t has ended.
JoinReturns(t) == Terminated(threads[t])

\* Line 332: self.__changeMeasConfSem.acquire()
CmcAcquire(p) ==
    /\ procs[p].pc = "c332"
    /\ SemAvailable
    /\ changeMeasConfSem' = changeMeasConfSem - 1
    /\ procs' = [procs EXCEPT ![p].pc = AfterStep("c332")]
    /\ callLog' = Append(callLog, <<p, "acquire">>)
    /\ UNCHANGED <<measConfCount, mainPc, joinTarget, runThread,
                   activeMeasConfigIdx, currCfg, workerThread, threads,
                   timerState, poolRunning, tasks, gpioQueue, dbIfQueue,
                   calls, polls, procVars, dbVars, sysVars>>

\* Line 335: self.__runThread = False
CmcClearFlag(p) ==
    /\ procs[p].pc = "c335"
    /\ runThread' = FALSE
    /\ threads' = MarkCleared(threads)
    /\ procs' = [procs EXCEPT ![p].pc = AfterStep("c335")]
    /\ callLog' = Append(callLog, <<p, "clear">>)
    /\ UNCHANGED <<measConfCount, mainPc, joinTarget, activeMeasConfigIdx,
                   currCfg, workerThread, changeMeasConfSem, timerState,
                   poolRunning, tasks, gpioQueue, dbIfQueue, calls, polls, procVars, dbVars, sysVars>>

\* Line 336: self.__workerThread.join(); a thread that was never started
\* makes join raise RuntimeError, which leaves the call with the lock held.
CmcJoin(p) ==
    /\ procs[p].pc = "c336"
    /\ IF threads[workerThread].pc = "new"
       THEN /\ procs' = [procs EXCEPT ![p].pc = "raised"]
            /\ callLog' = callLog
       ELSE /\ JoinReturns(workerThread)
            /\ procs' = [procs EXCEPT ![p].pc = AfterStep("c336")]
            /\ callLog' = Append(callLog,
                    <<p, IF Terminated(threads[workerThread])
                         THEN "terminated" ELSE "alive">>)
    /\ UNCHANGED <<measConfCount, mainPc, joinTarget, runThread,
                   activeMeasConfigIdx, currCfg, workerThread, threads,
                   changeMeasConfSem, timerState, poolRunning, tasks,
                   gpioQueue, dbIfQueue, calls, polls, procVars, dbVars, sysVars>>

\* Lines 338-345: is_alive() raises the exception, else the index is set.
CmcSetIndex(p) ==
    /\ procs[p].pc = "c344"
    /\ IF Alive(threads[workerThread])
       THEN /\ procs' = [procs EXCEPT ![p].pc = "raised"]
            /\ UNCHANGED <<activeMeasConfigIdx, callLog>>
       ELSE /\ activeMeasConfigIdx' = procs[p].arg
            /\ procs' = [procs EXCEPT ![p].pc = AfterStep("c344")]
            /\ callLog' = Append(callLog, <<p, "index">>)
    /\ UNCHANGED <<measConfCount, mainPc, joinTarget, runThread, currCfg,
                   workerThread, threads, changeMeasConfSem, timerState,
                   poolRunning, tasks, gpioQueue, dbIfQueue, calls, polls, procVars, dbVars, sysVars>>

\* Line 348: self.__gpioQueue.put_nowait(self.__activeMeasConfigIdx)
CmcNotifyGpio(p) ==
    /\ procs[p].pc = "c348"
    /\ gpioQueue' = Append(gpioQueue, activeMeasConfigIdx)
    /\ procs' = [procs EXCEPT ![p].pc = AfterStep("c348")]
    /\ callLog' = Append(callLog, <<p, "relay">>)
    /\ UNCHANGED <<measConfCount, mainPc, joinTarget, runThread,
                   activeMeasConfigIdx, currCfg, workerThread, threads,
                   changeMeasConfSem, timerState, poolRunning, tasks,
                   dbIfQueue, calls, polls, procVars, dbVars, sysVars>>

\* Lines 351-355: self.__runThread = True, and a new thread object is put
\* into self.__workerThread.
CmcNewThread(p) ==
    /\ procs[p].pc = "c351"
    /\ runThread' = TRUE
    /\ threads' = Append(threads, NewThread)
    /\ workerThread' = Len(threads) + 1
    /\ procs' = [procs EXCEPT ![p].pc = AfterStep("c351")]
    /\ UNCHANGED <<measConfCount, mainPc, joinTarget, activeMeasConfigIdx,
                   currCfg, changeMeasConfSem, timerState, poolRunning, tasks,
                   gpioQueue, dbIfQueue, calls, polls, callLog,
                   procVars, dbVars, sysVars>>

\* Line 356: self.__workerThread.start()
CmcStartThread(p) ==
    /\ procs[p].pc = "c356"
    /\ threads[workerThread].pc = "new"
    /\ threads' = [threads EXCEPT ![workerThread].pc = "s151"]
    /\ procs' = [procs EXCEPT ![p].pc = AfterStep("c356")]
    /\ callLog' = Append(callLog, <<p, "started">>)
    /\ UNCHANGED <<measConfCount, mainPc, joinTarget, runThread,
                   activeMeasConfigIdx, currCfg, workerThread,
                   changeMeasConfSem, timerState, poolRunning, tasks,
                   gpioQueue, dbIfQueue, calls, polls, procVars, dbVars, sysVars>>

\* A release that leaves the semaphore as it is.
CmcReleaseKeepingLock(p) ==
    /\ procs[p].pc = "c360"
    /\ procs' = [procs EXCEPT
                    ![p].pc = IF p = TimerProc THEN "t426" ELSE "returned",
                    ![p].arg = 0]
    /\ callLog' = << >>
    /\ UNCHANGED <<measConfCount, mainPc, joinTarget, runThread,
                   activeMeasConfigIdx, currCfg, workerThread, threads,
                   changeMeasConfSem, timerState, poolRunning, tasks,
                   gpioQueue, dbIfQueue, calls, polls, procVars, dbVars,
                   sysVars>>

\* Line 360: self.__changeMeasConfSem.release(), and the call returns: to
\* __confChangeFunc (line 425) or to the direct caller.
CmcRelease(p) ==
    /\ procs[p].pc = "c360"
    /\ changeMeasConfSem' = changeMeasConfSem + 1
    /\ procs' = [procs EXCEPT
                    ![p].pc = IF p = TimerProc THEN "t426" ELSE "returned",
                    ![p].arg = 0]
    /\ callLog' = << >>
    /\ UNCHANGED <<measConfCount, mainPc, joinTarget, runThread,
                   activeMeasConfigIdx, currCfg, workerThread, threads,
                   timerState, poolRunning, tasks, gpioQueue, dbIfQueue,
                   calls, polls, procVars, dbVars, sysVars>>

(***************************************************************************)
(* The configuration-switch timer: DataAquisition.__confChangeFunc runs in *)
(* the timer's thread when the interval has elapsed.                       *)
(***************************************************************************)
\* The interval of the timer in self.__confChangeTimer elapses.
TimerFire ==
    /\ timerState = "armed"
    /\ procs[TimerProc].pc = "idle"
    /\ calls < MaxCalls
    /\ calls' = calls + 1
    /\ timerState' = "fired"
    /\ procs' = [procs EXCEPT ![TimerProc].pc = "t415"]
    /\ UNCHANGED <<measConfCount, mainPc, joinTarget, runThread,
                   activeMeasConfigIdx, currCfg, workerThread, threads,
                   changeMeasConfSem, poolRunning, tasks, gpioQueue,
                   dbIfQueue, polls, callLog, procVars, dbVars, sysVars>>

\* A next index that does not wrap around.
NewMeasConfIdxUnwrapped == activeMeasConfigIdx + 1

\* Lines 416-420: newMeasConfIdx, the index after the active one, modulo
\* the number of measurement configurations.
NewMeasConfIdx == (activeMeasConfigIdx + 1) % measConfCount

\* Lines 415-423: if the run flag is set, the next index is computed and
\* changeMeasConfig is called with it; else the function returns.
TimerCheckFlag ==
    /\ procs[TimerProc].pc = "t415"
    /\ procs' = [procs EXCEPT
                    ![TimerProc].arg =
                        IF runThread THEN NewMeasConfIdx ELSE @,
                    ![TimerProc].pc = IF runThread THEN "c332" ELSE "idle"]
    /\ UNCHANGED <<measConfCount, mainPc, joinTarget, runThread,
                   activeMeasConfigIdx, currCfg, workerThread, threads,
                   changeMeasConfSem, timerState, poolRunning, tasks, gpioQueue,
                   dbIfQueue, calls, polls, callLog, procVars, dbVars, sysVars>>

\* Lines 426-430: a new Timer is put into self.__confChangeTimer and started.
TimerRestart ==
    /\ procs[TimerProc].pc = "t426"
    /\ timerState' = "armed"
    /\ procs' = [procs EXCEPT ![TimerProc].pc = "idle"]
    /\ UNCHANGED <<measConfCount, mainPc, joinTarget, runThread,
                   activeMeasConfigIdx, currCfg, workerThread, threads,
                   changeMeasConfSem, poolRunning, tasks, gpioQueue, dbIfQueue,
                   calls, polls, callLog, procVars, dbVars, sysVars>>

\* Another thread calls changeMeasConfig(idx) once start() has returned; the
\* callers are numbered in the order of their calls.
CallerCall(p) ==
    /\ procs[p].pc = "idle"
    /\ \A q \in Callers : q < p => procs[q].pc # "idle"
    /\ mainPc \notin {"m133", "m137"}
    /\ calls < MaxCalls
    /\ calls' = calls + 1
    /\ \E idx \in 0..(measConfCount - 1) :
          procs' = [procs EXCEPT ![p].arg = idx, ![p].pc = "c332"]
    /\ UNCHANGED <<measConfCount, mainPc, joinTarget, runThread,
                   activeMeasConfigIdx, currCfg, workerThread, threads,
                   changeMeasConfSem, timerState, poolRunning, tasks,
                   gpioQueue, dbIfQueue, polls, callLog, procVars, dbVars, sysVars>>


(***************************************************************************)
(* The run of the data acquisition.                                        *)
(***************************************************************************)
MainStep ==
    \/ StartThread
    \/ StartNotifyGpio
    \/ StopCancelTimer
    \/ StopClearFlag
    \/ StopJoinCall
    \/ StopJoinReturn
    \/ StopTerminatePool

ScanStep(t) ==
    \/ ScanStartDevice(t)
    \/ ScanCheck(t)
    \/ ScanRead(t)
    \/ ScanStop(t)

CmcStep(p) ==
    \/ CmcAcquire(p)
    \/ CmcClearFlag(p)
    \/ CmcJoin(p)
    \/ CmcSetIndex(p)
    \/ CmcNotifyGpio(p)
    \/ CmcNewThread(p)
    \/ CmcStartThread(p)
    \/ CmcRelease(p)

TimerStep ==
    \/ TimerFire
    \/ TimerCheckFlag
    \/ TimerRestart

Next ==
    \/ MainStep
    \/ \E t \in DOMAIN threads : ScanStep(t)
    \/ \E p \in Procs : CmcStep(p)
    \/ TimerStep
    \/ \E p \in Callers : CallerCall(p)
    \/ \E task \in tasks : PoolPut(task)

Spec == Init /\ [][Next]_vars

(***************************************************************************)
(* Claims about the reconfiguration protocol, checked under Spec.          *)
(***************************************************************************)
AliveThreads == {t \in DOMAIN threads : Alive(threads[t])}

\* The processes between acquire and release of the reconfiguration lock.
LockHolders ==
    {p \in Procs : procs[p].pc \in {"c335", "c336", "c344", "c348", "c351",
                                    "c356", "c360", "raised"}}

NoDirectCall == \A c \in Callers : procs[c].pc = "idle"

IsPrefix(a, b) == Len(a) <= Len(b) /\ SubSeq(b, 1, Len(a)) = a

\* The steps of one complete changeMeasConfig call of process p, in order.
FullSequence(p) ==
    << <<p, "acquire">>, <<p, "clear">>, <<p, "terminated">>, <<p, "index">>,
       <<p, "relay">>, <<p, "started">>, <<p, "release">> >>

\* C1: whatever changeMeasConfig calls are issued after start(), by the
\* timer or directly, at most one acquisition loop thread is started and
\* not yet ended: a new loop is started only after the previous one ended.
C1_AtMostOneLoop == Cardinality(AliveThreads) <= 1

\* C1 witness: a call has started a new loop while another call waits for
\* the lock.
C1_Witness ==
    \E p, q \in Procs :
        /\ procs[p].pc = "c360"
        /\ procs[q].pc = "c332"
        /\ Alive(threads[workerThread])
        /\ Len(threads) >= 2

\* C2: once stop() has returned, no acquisition loop is running and the run
\* flag is cleared, whatever the timer-driven changeMeasConfig did meanwhile
\* (runs without direct callers).
C2_StoppedStaysStopped ==
    (mainPc = "stopped" /\ NoDirectCall)
        => (~runThread /\ AliveThreads = {})

\* C3: at most one changeMeasConfig call is between acquire and release,
\* and the semaphore is taken exactly while one is: a call that arrives
\* meanwhile finds the value 0 and blocks at its acquire.
C3_OneReconfiguration ==
    /\ Cardinality(LockHolders) <= 1
    /\ changeMeasConfSem = 1 - Cardinality(LockHolders)

\* C3 witness: one call holds the lock while another is blocked at acquire.
C3_Witness ==
    \E p, q \in Procs :
        /\ p \in LockHolders
        /\ procs[q].pc = "c332"
        /\ changeMeasConfSem = 0

\* C4: every changeMeasConfig call runs its steps in the order clear run
\* flag, old loop terminated, index set, index sent to the relay queue, new
\* loop started, lock released; no step is skipped and the steps of two
\* calls are never mixed.
C4_FullSequence ==
    /\ [](\E p \in Procs : IsPrefix(callLog, FullSequence(p)))
    /\ [][\A p \in Procs :
            (procs[p].pc = "c360" /\ procs'[p].pc # "c360")
                => Append(callLog, <<p, "release">>) = FullSequence(p)]_vars

\* C4 witness: one call has returned and the next call, of the other
\* process, has come as far as starting its new loop.
C4_Witness ==
    \E p, q \in Procs :
        /\ p # q
        /\ procs[q].pc \in {"returned", "t426"}
        /\ procs[p].pc = "c360"
        /\ Len(callLog) = 6
        /\ callLog[1][1] = p

\* C5: after the run flag was cleared, a running acquisition loop reads the
\* device at most once more before it leaves the loop.
C5_OnePollAfterClear == \A t \in DOMAIN threads : threads[t].extra <= 1

\* C5 witness: a loop has done its one further poll after the flag was
\* cleared and is back at the loop condition.
C5_Witness ==
    \E t \in DOMAIN threads :
        /\ threads[t].extra = 1
        /\ threads[t].pc = "s186"
        /\ ~runThread

\* C6: an acquisition thread that has ended has stopped and cleaned up the
\* scan it started, so no scan of an earlier thread is still active when a
\* later thread starts its own (runs without direct callers).
C6_EndedThreadReleasedScan ==
    NoDirectCall =>
        /\ \A t \in DOMAIN threads :
              Terminated(threads[t]) => threads[t].scan = "released"
        /\ Cardinality({t \in DOMAIN threads : threads[t].scan = "active"}) <= 1

\* C7: a poll that reports a hardware or buffer overrun dispatches nothing,
\* puts nothing on the delivery queue, leaves the run flag and the active
\* configuration as they are and goes back to the loop condition; a poll
\* without overrun hands its batch to the pool.
C7_OverrunDropsBatch ==
    [][\A t \in DOMAIN threads :
          (threads[t].pc = "s193" /\ threads'[t].pc # "s193")
            => IF threads'[t].lastRead \in {"hw", "buf"}
               THEN /\ tasks' = tasks
                    /\ dbIfQueue' = dbIfQueue
                    /\ runThread' = runThread
                    /\ activeMeasConfigIdx' = activeMeasConfigIdx
                    /\ threads'[t].pc = "s186"
               ELSE IF poolRunning
               THEN /\ threads'[t].lastRead = "ok"
                    /\ tasks' = tasks \cup {[batch |-> polls, cfg |-> currCfg,
                                              put |-> 0]}
                    /\ tasks' # tasks
               ELSE threads'[t].pc = "died"]_vars

\* C7 witness: the first poll of the run left neither a task nor a queue
\* entry (it reported an overrun), and the second poll was dispatched.
C7_Witness ==
    /\ polls = 2
    /\ dbIfQueue = << >>
    /\ \E task \in tasks : task.batch = 2
    /\ \A task \in tasks : task.batch = 2

(***************************************************************************)
(* A single call of processingFunction on a batch (SpecProc): the inputs   *)
(* are drawn in the initial state, then the call computes its entries and  *)
(* puts them on the database queue.                                        *)
(***************************************************************************)
\* Channel maps of one and of two channels.
ProcChannelMaps ==
    { << <<0, <<"A">> >> >>,
      << <<0, <<"A">> >>, <<1, <<"B">> >> >> }

\* Sets of measurements: none, one, two, and one that names no channel.
ProcCalculations ==
    { << >>,
      << <<"sum", <<"A", "+", "B">> >> >>,
      << <<"a", <<"A">> >>, <<"d", <<"A", "*", "2">> >> >>,
      << <<"a", <<"A">> >>, <<"x", <<"A", "-", "C">> >> >> }

\* Scan rates whose sample period is at least the spacing of the floats.
ProcScanRates == {r \in 1..UnitsPerSecond :
                    UnitsPerSecond % r = 0 /\ UnitsPerSecond \div r >= FloatUlp}

\* Batches of up to MaxChunks samples per channel, and the batches with one
\* value more (their length is no multiple of two channels).
ProcBatches ==
    {[i \in 1..n |-> i] : n \in 0..(2 * MaxChunks + 1)}
    \cup {[i \in 1..n |-> 3 - i] : n \in 1..2}

ProcInit ==
    /\ pPc = "call"
    /\ pOut = << >>
    /\ pIn \in [timestamp : {100, 100 + FloatUlp},
                data      : ProcBatches,
                calcs     : ProcCalculations,
                name      : {"c0"},
                channels  : ProcChannelMaps,
                rate      : ProcScanRates]

InitProc ==
    /\ DaqInit /\ measConfCount = Len(MeasurementConfigs)
    /\ ProcInit /\ DbInit /\ SysIdle

\* Lines 263-314: the entries of the batch are computed; an exception ends
\* the call.
ProcCompute ==
    /\ pPc = "call"
    /\ pOut' = processingFunction(pIn.timestamp, pIn.data, pIn.calcs, pIn.name,
                                  pIn.channels, pIn.rate)
    /\ pPc' = IF pOut'.raised THEN "raised"
              ELSE IF Len(pOut'.entries) = 0 THEN "done" ELSE "put"
    /\ UNCHANGED <<pIn, daqVars, dbVars, sysVars>>

\* Lines 316-317: the next entry is put on the database queue.
ProcPut ==
    /\ pPc = "put"
    /\ dbIfQueue' = Append(dbIfQueue, pOut.entries[Len(dbIfQueue) + 1])
    /\ pPc' = IF Len(dbIfQueue') = Len(pOut.entries) THEN "done" ELSE "put"
    /\ UNCHANGED <<pIn, pOut, measConfCount, mainPc, joinTarget, runThread,
                   activeMeasConfigIdx, currCfg, workerThread, threads,
                   changeMeasConfSem, timerState, procs, poolRunning, tasks,
                   gpioQueue, calls, polls, callLog, dbVars, sysVars>>

NextProc == ProcCompute \/ ProcPut

SpecProc == InitProc /\ [][NextProc]_vars

(***************************************************************************)
(* Claims about processingFunction, checked under SpecProc.                *)
(***************************************************************************)
ProcChannelCount == Len(pIn.channels)

\* The raw length is a multiple of the number of channels.
ProcWellFormed == Len(pIn.data) % ProcChannelCount = 0

\* M, the samples per channel of the batch.
ProcChunkCount == Len(pIn.data) \div ProcChannelCount

ProcReturned == pPc \in {"done", "raised"}

\* The timestamps of the points of a queue entry.
EntryStamps(entry) == DOMAIN entry[2]

\* The expression evaluates once its channel tags are replaced by numbers.
Evaluable(expr, channelDict) ==
    doCalculation(expr, channelDict,
                  [tag \in {channelDict[i][2] : i \in 1..Len(channelDict)} |-> 1]).ok

ProcAllEvaluable ==
    \A e \in 1..Len(pIn.calcs) : Evaluable(pIn.calcs[e][2], pIn.channels)

\* What C8 says of the entries that were delivered.
ProcDeliveredAll ==
    /\ Len(dbIfQueue) = Len(pIn.calcs)
    /\ \A e \in 1..Len(dbIfQueue) :
          /\ dbIfQueue[e][1] = MeasurementName(pIn.name, pIn.calcs[e][1])
          /\ Cardinality(EntryStamps(dbIfQueue[e])) = ProcChunkCount
          /\ EntryStamps(dbIfQueue[e]) =
                {pOut.stamps[c] : c \in 1..Len(pOut.stamps)}
    /\ Len(pOut.stamps) = ProcChunkCount

C9_StampOfChunk ==
    (pPc = "done" /\ Len(dbIfQueue) >= 1)
        => EntryStamps(dbIfQueue[1]) =
              {pIn.timestamp - i * SampleOffset(pIn.rate) :
                  i \in 0..(ProcChunkCount - 1)}

\* The differences of the timestamps of consecutive chunks.
StampSteps == {pOut.stamps[i] - pOut.stamps[i + 1] : i \in 1..(Len(pOut.stamps) - 1)}

\* C10 as stated: the timestamps of consecutive chunks strictly decrease
\* and differ by exactly 1 / sampleRate.
C10_Original ==
    pPc = "done" => \A d \in StampSteps : d = SampleOffset(pIn.rate)

\* C10 as amended: the timestamps strictly decrease with the chunk index,
\* and consecutive timestamps differ by 1 / sampleRate up to the rounding of
\* the float subtraction, that is by at most half the spacing of the floats
\* at the timestamp (for sample periods of at least that spacing).
C10_StampsDecrease ==
    pPc = "done" =>
        \A d \in StampSteps :
            /\ d > 0
            /\ 2 * (d - SampleOffset(pIn.rate)) <= FloatUlp
            /\ 2 * (SampleOffset(pIn.rate) - d) <= FloatUlp

\* C10 witness: a delivered batch of at least three chunks whose consecutive
\* timestamps do not all differ by the exact sample period.
C10_Witness ==
    /\ pPc = "done"
    /\ Len(pOut.stamps) >= 3
    /\ \E d \in StampSteps : d # SampleOffset(pIn.rate)

\* The values the claim binds to the channel tags in the chunk that the
\* k-th loop iteration consumes (k = 1: the most recent chunk, which is
\* chunk M - k counted from the oldest): tag j of the channel order gets
\* element (M - k) * N + j of the batch.
ChunkBinding(k) ==
    [tag \in {pIn.channels[j][2] : j \in 1..ProcChannelCount} |->
        LET j == CHOOSE i \in 1..ProcChannelCount : pIn.channels[i][2] = tag
        IN  pIn.data[(ProcChunkCount - k) * ProcChannelCount + j]]

\* Every delivered point of iteration k is the expression evaluated over
\* the values of chunk M - k.
ProcValuesOfOneInstant ==
    (pPc = "done" /\ ProcWellFormed) =>
        \A e \in 1..Len(dbIfQueue) : \A k \in 1..Len(pOut.stamps) :
            dbIfQueue[e][2][pOut.stamps[k]] =
                doCalculation(pIn.calcs[e][2], pIn.channels, ChunkBinding(k)).v

\* C11: reverse consumption binds tag j to element c*N+j of chunk c, so a
\* point is computed from the values of one sampling instant, and the point
\* of the k-th most recent chunk is stamped batchEndTimestamp - (k-1) /
\* sampleRate (T and T - 0.1 for two chunks at 10 Hz).
C11_ValuesAndStampsOfChunks ==
    /\ ProcValuesOfOneInstant
    /\ (pPc = "done" /\ ProcWellFormed) =>
            \A k \in 1..Len(pOut.stamps) :
                pOut.stamps[k] = pIn.timestamp - (k - 1) * SampleOffset(pIn.rate)

\* An expression that evaluates has an entry with all M points on the queue.
ProcEvaluableDelivered ==
    \A e \in 1..Len(pIn.calcs) :
        Evaluable(pIn.calcs[e][2], pIn.channels) =>
            \E q \in 1..Len(dbIfQueue) :
                /\ dbIfQueue[q][1] = MeasurementName(pIn.name, pIn.calcs[e][1])
                /\ Cardinality(EntryStamps(dbIfQueue[q])) = ProcChunkCount

\* C12: when the calculation of one point fails, the call still delivers
\* the points of the other expressions and chunks of the batch.
C12_OnlyFailedPointLost ==
    (ProcReturned /\ ProcWellFormed) => ProcEvaluableDelivered

(***************************************************************************)
(* Claims about the hand-over to the pool and the queues, checked under    *)
(* Spec.                                                                   *)
(***************************************************************************)
\* C13: a batch is dispatched with the configuration that is active when
\* it is captured, and every entry put on the database queue is the one
\* processingFunction computes with the name, channel map, expressions and
\* scan rate of that configuration, whatever configuration is active when
\* the entry is put.
C13_SnapshotOfCapture ==
    /\ [][\A task \in tasks' \ tasks :
            task.put = 0 => (task.cfg = activeMeasConfigIdx /\ task.cfg = currCfg)]_vars
    /\ [][(dbIfQueue' # dbIfQueue /\ dbIfQueue'[Len(dbIfQueue')] # EndSymbol)
            => \E task \in tasks :
                  /\ task.put < Len(BatchEntries[task.cfg][task.batch])
                  /\ dbIfQueue' = Append(dbIfQueue,
                        BatchEntries[task.cfg][task.batch][task.put + 1])]_vars

\* C13 witness: the first batch was captured under configuration 0 and the
\* second under configuration 1 after a swap; the entry of the first batch
\* was put after that of the second, while configuration 1 is active.
C13_Witness ==
    /\ activeMeasConfigIdx = 1
    /\ dbIfQueue = <<BatchEntries[1][2][1], BatchEntries[0][1][1]>>

\* The positions of the end symbol on the database queue.
SentinelPositions == {i \in 1..Len(dbIfQueue) : dbIfQueue[i] = EndSymbol}

\* At most one end symbol was put, nothing was put behind it, and stop()
\* has put one when it has returned.
OneSentinelAtTheEnd ==
    /\ SentinelPositions \subseteq {Len(dbIfQueue)}
    /\ mainPc = "stopped" => SentinelPositions # {}

\* C15: exactly one end symbol is put in a run, no entry is put behind it,
\* and at the moment it is put no acquisition loop is alive and no
\* processing task is left that could put an entry (the latter looked at
\* in runs without direct callers).
C15_OneSentinelAfterQuiescence ==
    /\ []OneSentinelAtTheEnd
    /\ [][(/\ Len(dbIfQueue') > Len(dbIfQueue)
            /\ dbIfQueue'[Len(dbIfQueue')] = EndSymbol
            /\ NoDirectCall)
            => (AliveThreads = {} /\ tasks' = {})]_vars

\* C18: the active index is always an index of the list of measurement
\* configurations, and it changes only in the index assignment of a
\* changeMeasConfig call that holds the lock, to the index the call was
\* given, while no acquisition loop is alive.
C18_ActiveIndexValid ==
    /\ [](activeMeasConfigIdx \in 0..(measConfCount - 1))
    /\ [][activeMeasConfigIdx' # activeMeasConfigIdx
            => \E p \in LockHolders :
                  /\ procs[p].pc = "c344" /\ procs'[p].pc # "c344"
                  /\ activeMeasConfigIdx' = procs[p].arg
                  /\ changeMeasConfSem = 0
                  /\ AliveThreads = {}]_vars

\* C18 witness: a call has just set the index to 1, the last index of the
\* list, after the loop of configuration 0 had polled the device.
C18_Witness ==
    /\ activeMeasConfigIdx = 1
    /\ polls >= 1
    /\ \E p \in Procs : procs[p].pc = "c348" /\ procs[p].arg = 1

\* The number of puts on the GPIO queue the calls holding the lock logged.
RelaysLogged == Cardinality({i \in 1..Len(callLog) : callLog[i][2] = "relay"})

\* C19: the GPIO queue receives the values the active index takes, in
\* order: index 0 in start(), then one put per changeMeasConfig call, of
\* the index that call has just set, made without waiting and before the
\* call starts its new loop.
C19_RelayFollowsIndex ==
    /\ [](mainPc \notin {"m133", "m137"}
            => (Len(gpioQueue) >= 1 /\ gpioQueue[1] = 0))
    /\ []((Len(gpioQueue) >= 1 /\ \A p \in Procs : procs[p].pc # "c348")
            => gpioQueue[Len(gpioQueue)] = activeMeasConfigIdx)
    /\ [](\A p \in Procs :
            procs[p].pc \in {"c351", "c356", "c360"} => RelaysLogged = 1)
    /\ [][gpioQueue' # gpioQueue
            => /\ gpioQueue' = Append(gpioQueue, activeMeasConfigIdx)
               /\ \/ mainPc = "m137" /\ mainPc' = "input"
                  \/ \E p \in LockHolders :
                        /\ procs[p].pc = "c348" /\ procs'[p].pc = "c351"
                        /\ activeMeasConfigIdx = procs[p].arg
                        /\ threads' = threads]_vars
    /\ [][\A p \in Procs :
            (procs[p].pc = "c344" /\ procs'[p].pc \notin {"c344", "raised"})
                => procs'[p].pc = "c348"]_vars

\* C19 witness: two reconfigurations have taken effect, 0 -> 1 -> 0, the
\* queue holds the three indices in that order and the second call is about
\* to start its loop.
C19_Witness ==
    /\ gpioQueue = <<0, 1, 0>>
    /\ activeMeasConfigIdx = 0
    /\ \E p \in Procs : procs[p].pc = "c351"

(***************************************************************************)
(* The acquisition with a device read that may never return (SpecHang):    *)
(* the loop then does not terminate after the run flag was cleared.  A     *)
(* thread that runs changeMeasConfig goes on whenever it can.              *)
(***************************************************************************)
\* Line 193: a_in_scan_read does not return.
ScanHang(t) ==
    /\ threads[t].pc = "s193"
    /\ threads' = [threads EXCEPT ![t].pc = "hung"]
    /\ UNCHANGED <<measConfCount, mainPc, joinTarget, runThread,
                   activeMeasConfigIdx, currCfg, workerThread, changeMeasConfSem,
                   timerState, procs, poolRunning, tasks, gpioQueue, dbIfQueue,
                   calls, polls, callLog, procVars, dbVars, sysVars>>

NextHang == Next \/ \E t \in DOMAIN threads : ScanHang(t)

SpecHang ==
    Init /\ [][NextHang]_vars /\ \A p \in Procs : WF_vars(CmcStep(p))

\* C20: a changeMeasConfig call that waits for a loop which does not
\* terminate raises an error to its caller.
C20_RaisesWhenLoopStuck ==
    \A p \in Procs :
        (procs[p].pc = "c336" /\ threads[workerThread].pc = "hung")
            ~> (procs[p].pc = "raised")

-----------------------------------------------------------------------------
\* DatabaseInterface: the listener thread (storeFunction) takes objects from
\* the queue and merges them into valueCache, the worker thread
\* (__workerWriteback) writes the cache to the database.  The objects on the
\* queue are drawn from DbObjects.

\* Python's None as an object of the queue.
NoneObj == << >>

\* Objects of the queue: fragments <<measurement, {timestamp: value}>> of the
\* two configured measurements (two of one measurement with different
\* timestamps, one that repeats a timestamp, one with no value), None and the
\* end symbol.
DbObjects ==
    { <<"c0_sum", (1 :> 10)>>, <<"c0_sum", (2 :> 20)>>, <<"c0_sum", (1 :> 30)>>,
      <<"c1_d", (1 :> 10)>>, <<"c1_d", EmptyDict>>, NoneObj, EndSymbol }

\* dict.update(value): the keys of value are added, their values replace the
\* ones the dict has.
DictUpdateKeepingOld(d, value) == d @@ value

DictUpdate(d, value) == value @@ d

\* storeFunction, lines 175-176: a measurement the cache does not have gets
\* an empty dict.
CacheWithKey(cache, measurement) ==
    IF measurement \in DOMAIN cache
    THEN cache
    ELSE DictPut(cache, measurement, EmptyDict)

\* storeFunction, line 178: the dict of the measurement is updated.
CacheUpdated(cache, measurement, value) ==
    [cache EXCEPT ![measurement] = DictUpdate(@, value)]

\* storeFunction, lines 171-178 for one object: the merge of a fragment.
Merge(cache, obj) ==
    CacheUpdated(CacheWithKey(cache, obj[1]), obj[1], obj[2])

\* The merges of a sequence of fragments into a cache, in their order.
RECURSIVE MergeAll(_, _)
MergeAll(cache, objs) ==
    IF objs = << >> THEN cache
    ELSE MergeAll(Merge(cache, Head(objs)), Tail(objs))

\* Semaphore.acquire returns when the value is positive.
DbSemAvailableAlways == TRUE

DbSemAvailable == writeSemaphore > 0

\* storeFunction, lines 157-166: None is skipped, the end symbol ends the
\* thread, any other object is merged.
AfterObjectIgnoringEnd(obj) ==
    IF obj = NoneObj \/ obj = EndSymbol THEN "l149" ELSE "l169"

AfterObject(obj) ==
    IF obj = NoneObj THEN "l149"
    ELSE IF obj = EndSymbol THEN "ended"
    ELSE "l169"

\* The environment puts an object on the queue (put_nowait of a producer).
DbPut ==
    /\ puts < MaxPuts
    /\ \E o \in DbObjects : dbIfQueue' = Append(dbIfQueue, o)
    /\ puts' = puts + 1
    /\ UNCHANGED <<otherVars, dbRunThread, dbMainPc, listener, writerPc, valueCache,
                   writeSemaphore, pending, committed, dbFile,
                   writeCycleCounter, mergedLog, writebacks>>

\* self.__connected: set to False in __init__ (line 84) and in
\* __createDbStructure (line 280), never to True.
dbConnected == FALSE

\* DatabaseInterface.start, lines 113-120: the first call.
DbStart ==
    /\ dbMainPc = "d117"
    /\ ~dbConnected
    /\ dbRunThread' = TRUE
    /\ writerPc' = "w196"
    /\ listener' = [listener EXCEPT !.pc = "l149"]
    /\ dbMainPc' = "running"
    /\ UNCHANGED <<otherVars, dbIfQueue, valueCache, writeSemaphore, pending, committed,
                   dbFile, writeCycleCounter, mergedLog, puts, writebacks>>

\* DatabaseInterface.start called again on the started interface, lines
\* 113-118: the test of line 113 reads __connected; when it lets the call
\* pass, the flag is set and Thread.start of the worker thread, which was
\* started before, raises RuntimeError.
DbStartAgain ==
    /\ dbMainPc = "running"
    /\ IF dbConnected
       THEN dbMainPc' = "refused" /\ UNCHANGED dbRunThread
       ELSE dbMainPc' = "raised" /\ dbRunThread' = TRUE
    /\ UNCHANGED <<otherVars, dbIfQueue, listener, writerPc, valueCache,
                   writeSemaphore, pending, committed, dbFile,
                   writeCycleCounter, mergedLog, puts, writebacks>>

\* DatabaseInterface.stop, line 131.
DbStopClearFlag ==
    /\ dbMainPc = "running"
    /\ dbRunThread' = FALSE
    /\ dbMainPc' = "d132"
    /\ UNCHANGED <<otherVars, dbIfQueue, listener, writerPc, valueCache, writeSemaphore,
                   pending, committed, dbFile, writeCycleCounter, mergedLog,
                   puts, writebacks>>

\* DatabaseInterface.stop, line 132: join of the worker thread.
DbStopJoinWorker ==
    /\ dbMainPc = "d132"
    /\ writerPc \in {"closed", "failed"}
    /\ dbMainPc' = "d133"
    /\ UNCHANGED <<otherVars, dbIfQueue, dbRunThread, listener, writerPc, valueCache,
                   writeSemaphore, pending, committed, dbFile,
                   writeCycleCounter, mergedLog, puts, writebacks>>

\* DatabaseInterface.stop, line 133: join of the listener thread.
DbStopJoinListener ==
    /\ dbMainPc = "d133"
    /\ listener.pc = "ended"
    /\ dbMainPc' = "stopped"
    /\ UNCHANGED <<otherVars, dbIfQueue, dbRunThread, listener, writerPc, valueCache,
                   writeSemaphore, pending, committed, dbFile,
                   writeCycleCounter, mergedLog, puts, writebacks>>

\* storeFunction, line 149: the loop condition.
ListenerCheck ==
    /\ listener.pc = "l149"
    /\ listener' = [listener EXCEPT
                        !.pc = IF dbRunThread THEN "l152" ELSE "ended"]
    /\ UNCHANGED <<otherVars, dbIfQueue, dbRunThread, dbMainPc, writerPc, valueCache,
                   writeSemaphore, pending, committed, dbFile,
                   writeCycleCounter, mergedLog, puts, writebacks>>

\* storeFunction, lines 152-166: get blocks until the queue holds an object.
ListenerGet ==
    /\ listener.pc = "l152"
    /\ dbIfQueue # << >>
    /\ dbIfQueue' = Tail(dbIfQueue)
    /\ listener' = [pc |-> AfterObject(Head(dbIfQueue)),
                    obj |-> IF AfterObject(Head(dbIfQueue)) = "l169"
                            THEN Head(dbIfQueue) ELSE << >>]
    /\ UNCHANGED <<otherVars, dbRunThread, dbMainPc, writerPc, valueCache,
                   writeSemaphore, pending, committed, dbFile,
                   writeCycleCounter, mergedLog, puts, writebacks>>

\* storeFunction, line 169.
ListenerAcquire ==
    /\ listener.pc = "l169"
    /\ DbSemAvailable
    /\ writeSemaphore' = writeSemaphore - 1
    /\ listener' = [listener EXCEPT !.pc = "l175"]
    /\ UNCHANGED <<otherVars, dbIfQueue, dbRunThread, dbMainPc, writerPc, valueCache,
                   pending, committed, dbFile, writeCycleCounter, mergedLog,
                   puts, writebacks>>

\* storeFunction, lines 171-176: a measurement the cache does not have gets
\* an empty dict.
ListenerAddKey ==
    /\ listener.pc = "l175"
    /\ valueCache' = CacheWithKey(valueCache, listener.obj[1])
    /\ listener' = [listener EXCEPT !.pc = "l178"]
    /\ UNCHANGED <<otherVars, dbIfQueue, dbRunThread, dbMainPc, writerPc,
                   writeSemaphore, pending, committed, dbFile,
                   writeCycleCounter, mergedLog, puts, writebacks>>

\* storeFunction, line 178.
ListenerUpdate ==
    /\ listener.pc = "l178"
    /\ valueCache' = CacheUpdated(valueCache, listener.obj[1], listener.obj[2])
    /\ mergedLog' = Append(mergedLog, listener.obj)
    /\ listener' = [listener EXCEPT !.pc = "l181"]
    /\ UNCHANGED <<otherVars, dbIfQueue, dbRunThread, dbMainPc, writerPc,
                   writeSemaphore, pending, committed, dbFile,
                   writeCycleCounter, puts, writebacks>>

\* storeFunction, lines 181-184.
ListenerRelease ==
    /\ listener.pc = "l181"
    /\ writeSemaphore' = writeSemaphore + 1
    /\ listener' = [pc |-> "l149", obj |-> << >>]
    /\ UNCHANGED <<otherVars, dbIfQueue, dbRunThread, dbMainPc, writerPc, valueCache,
                   pending, committed, dbFile, writeCycleCounter, mergedLog,
                   puts, writebacks>>

\* __workerWriteback, lines 196-198: the first database file is created.
WriterCreate ==
    /\ writerPc = "w196"
    /\ dbFile' = dbFile + 1
    /\ writerPc' = "w201"
    /\ UNCHANGED <<otherVars, dbIfQueue, dbRunThread, dbMainPc, listener, valueCache,
                   writeSemaphore, pending, committed, writeCycleCounter,
                   mergedLog, puts, writebacks>>

\* __workerWriteback, lines 201-203 and 221: the loop condition; the
\* connection is closed when the loop is left.
WriterCheck ==
    /\ writerPc = "w201"
    /\ dbRunThread => writebacks < MaxWritebacks
    /\ writerPc' = IF dbRunThread THEN "w229" ELSE "closed"
    /\ writebacks' = IF dbRunThread THEN writebacks + 1 ELSE writebacks
    /\ UNCHANGED <<otherVars, dbIfQueue, dbRunThread, dbMainPc, listener, valueCache,
                   writeSemaphore, pending, committed, dbFile,
                   writeCycleCounter, mergedLog, puts>>

\* __writeback, line 229: the length of the cache, read without the semaphore.
WriterPeek ==
    /\ writerPc = "w229"
    /\ writerPc' = IF DOMAIN valueCache # {} THEN "w232" ELSE "w210"
    /\ UNCHANGED <<otherVars, dbIfQueue, dbRunThread, dbMainPc, listener, valueCache,
                   writeSemaphore, pending, committed, dbFile,
                   writeCycleCounter, mergedLog, puts, writebacks>>

\* __writeback, line 232.
WriterAcquire ==
    /\ writerPc = "w232"
    /\ DbSemAvailable
    /\ writeSemaphore' = writeSemaphore - 1
    /\ writerPc' = "w237"
    /\ UNCHANGED <<otherVars, dbIfQueue, dbRunThread, dbMainPc, listener, valueCache,
                   pending, committed, dbFile, writeCycleCounter, mergedLog,
                   puts, writebacks>>

\* __writeback, lines 237-255: one INSERT per measurement of the cache.  The
\* statement of a measurement with no value has an empty value list; sqlite
\* raises, the thread ends with the semaphore held and what was inserted
\* before stays uncommitted.
WriterInsert ==
    /\ writerPc = "w237"
    /\ IF \E m \in DOMAIN valueCache : valueCache[m] = EmptyDict
       THEN writerPc' = "failed" /\ UNCHANGED pending
       ELSE writerPc' = "w258" /\ pending' = valueCache
    /\ UNCHANGED <<otherVars, dbIfQueue, dbRunThread, dbMainPc, listener, valueCache,
                   writeSemaphore, committed, dbFile, writeCycleCounter,
                   mergedLog, puts, writebacks>>

\* __writeback, line 258.
WriterClear ==
    /\ writerPc = "w258"
    /\ valueCache' = EmptyDict
    /\ mergedLog' = << >>
    /\ writerPc' = "w261"
    /\ UNCHANGED <<otherVars, dbIfQueue, dbRunThread, dbMainPc, listener,
                   writeSemaphore, pending, committed, dbFile,
                   writeCycleCounter, puts, writebacks>>

\* __writeback, line 261.
WriterCommit ==
    /\ writerPc = "w261"
    /\ committed' = Append(committed, <<dbFile, pending>>)
    /\ pending' = EmptyDict
    /\ writerPc' = "w264"
    /\ UNCHANGED <<otherVars, dbIfQueue, dbRunThread, dbMainPc, listener, valueCache,
                   writeSemaphore, dbFile, writeCycleCounter, mergedLog,
                   puts, writebacks>>

\* __writeback, line 264.
WriterRelease ==
    /\ writerPc = "w264"
    /\ writeSemaphore' = writeSemaphore + 1
    /\ writerPc' = "w210"
    /\ UNCHANGED <<otherVars, dbIfQueue, dbRunThread, dbMainPc, listener, valueCache,
                   pending, committed, dbFile, writeCycleCounter, mergedLog,
                   puts, writebacks>>

\* A file change that leaves the write-cycle counter as it is.
WriterCountNoReset ==
    /\ writerPc = "w210"
    /\ IF writeCycleCounter + 1 >= changeIntervall /\ changeIntervall # 0
       THEN dbFile' = dbFile + 1
       ELSE UNCHANGED dbFile
    /\ writeCycleCounter' = writeCycleCounter + 1
    /\ writerPc' = "w201"
    /\ UNCHANGED <<otherVars, dbIfQueue, dbRunThread, dbMainPc, listener, valueCache,
                   writeSemaphore, pending, committed, mergedLog, puts,
                   writebacks>>

\* __workerWriteback, lines 210-218: the writebacks are counted; a new
\* database file is created every changeIntervall writebacks.
WriterCount ==
    /\ writerPc = "w210"
    /\ IF writeCycleCounter + 1 >= changeIntervall /\ changeIntervall # 0
       THEN dbFile' = dbFile + 1 /\ writeCycleCounter' = 0
       ELSE writeCycleCounter' = writeCycleCounter + 1 /\ UNCHANGED dbFile
    /\ writerPc' = "w201"
    /\ UNCHANGED <<otherVars, dbIfQueue, dbRunThread, dbMainPc, listener, valueCache,
                   writeSemaphore, pending, committed, mergedLog, puts,
                   writebacks>>

DbMainStep ==
    \/ DbStart
    \/ DbStartAgain
    \/ DbStopClearFlag
    \/ DbStopJoinWorker
    \/ DbStopJoinListener

ListenerStep ==
    \/ ListenerCheck
    \/ ListenerGet
    \/ ListenerAcquire
    \/ ListenerAddKey
    \/ ListenerUpdate
    \/ ListenerRelease

WriterStep ==
    \/ WriterCreate
    \/ WriterCheck
    \/ WriterPeek
    \/ WriterAcquire
    \/ WriterInsert
    \/ WriterClear
    \/ WriterCommit
    \/ WriterRelease
    \/ WriterCount

NextDb == DbPut \/ DbMainStep \/ ListenerStep \/ WriterStep

InitDb ==
    /\ DaqInit /\ measConfCount = Len(MeasurementConfigs)
    /\ ProcIdle /\ DbInit /\ SysIdle

SpecDb == InitDb /\ [][NextDb]_vars

-----------------------------------------------------------------------------
\* Claims about the database interface (SpecDb).

\* C14: the step of the listener that takes the end symbol from the queue
\* ends the listener, and once the listener has ended it takes nothing from
\* the queue and merges nothing: the queue does not get shorter and the
\* cache and the record of merged fragments change only by being cleared.
C14_EndSymbolEndsListener ==
    [][ /\ (listener.pc = "l152" /\ listener'.pc # "l152"
                /\ Head(dbIfQueue) = EndSymbol)
            => (listener'.pc = "ended" /\ dbIfQueue' = Tail(dbIfQueue))
        /\ listener.pc = "ended"
            => /\ listener' = listener
               /\ Len(dbIfQueue') >= Len(dbIfQueue)
               /\ valueCache' \in {valueCache, EmptyDict}
               /\ mergedLog' \in {mergedLog, << >>} ]_vars

\* The listener has ended on the end symbol (the flag is still set), a
\* fragment put behind the end symbol is still on the queue, and the writer
\* has finished its iterations without anything to write.
C14_Witness ==
    /\ listener.pc = "ended"
    /\ dbRunThread
    /\ dbIfQueue = << <<"c0_sum", (1 :> 10)>> >>
    /\ puts = 2
    /\ valueCache = EmptyDict
    /\ committed = << >>
    /\ writerPc = "w201"
    /\ writebacks = MaxWritebacks

\* The positions of storeFunction between acquire and release (the merge) and
\* the positions of __writeback between acquire and release.
MergePositions == {"l175", "l178", "l181"}

WritebackPositions == {"w237", "w258", "w261", "w264"}

\* C16: the merge and the writeback are never in progress together; between
\* the writeback's reading of the cache and its clearing no step changes the
\* cache, so what is cleared is what was read; while a merge is in progress
\* nothing is inserted from the cache and only the merge changes the cache.
C16_MergeAndWritebackExclusive ==
    /\ [](~(listener.pc \in MergePositions /\ writerPc \in WritebackPositions))
    /\ [][ /\ writerPc = "w258"
               => /\ pending = valueCache
                  /\ valueCache' # valueCache
                       => (writerPc' = "w261" /\ valueCache' = EmptyDict)
           /\ listener.pc \in MergePositions
               => /\ pending' = pending
                  /\ valueCache' # valueCache => listener'.pc # listener.pc
                  /\ writerPc' # writerPc => writerPc' \notin WritebackPositions
         ]_vars

\* The writeback has read the cache and not yet cleared it, the listener
\* holds a fragment and waits for the semaphore.
C16_Witness ==
    /\ writerPc = "w258"
    /\ listener.pc = "l169"
    /\ listener.obj = <<"c0_sum", (2 :> 20)>>
    /\ valueCache = ("c0_sum" :> (1 :> 10))
    /\ writeSemaphore = 0

\* The largest element of a non-empty set of integers.
MaxOf(S) == CHOOSE x \in S : \A y \in S : y <= x

\* The cache a sequence of fragments describes: per measurement the union of
\* the timestamps of its fragments, each with the value of the last fragment
\* that has it.
UnionLastWins(log) ==
    [m \in {log[i][1] : i \in DOMAIN log} |->
        LET idx == {i \in DOMAIN log : log[i][1] = m}
            keys == UNION {DOMAIN log[i][2] : i \in idx}
        IN [k \in keys |->
                log[MaxOf({i \in idx : k \in DOMAIN log[i][2]})][2][k]]]

\* The orders of arrival of n fragments.
ArrivalOrders(n) ==
    {f \in [1..n -> 1..n] : \A i, j \in 1..n : f[i] = f[j] => i = j}

\* No two fragments of one measurement share a timestamp.
DisjointKeys(log) ==
    \A i, j \in DOMAIN log :
        (i # j /\ log[i][1] = log[j][1])
            => DOMAIN log[i][2] \cap DOMAIN log[j][2] = {}

\* C17: outside the two statements of a merge the cache is, per measurement,
\* the union of the timestamps of the fragments merged since the cache was
\* last cleared, with the last merged value for a timestamp merged more than
\* once; when these fragments have disjoint timestamps, merging them in any
\* other order gives the same cache.
C17_CacheIsUnionLastWins ==
    listener.pc # "l178" =>
        /\ valueCache = UnionLastWins(mergedLog)
        /\ DisjointKeys(mergedLog) =>
               \A f \in ArrivalOrders(Len(mergedLog)) :
                   MergeAll(EmptyDict,
                            [i \in 1..Len(mergedLog) |-> mergedLog[f[i]]])
                       = valueCache

\* Three fragments of one measurement have been merged since the last
\* clearing, the third with the timestamp of the first: the cache has both
\* timestamps and the value of the third fragment.
C17_WitnessOverwrite ==
    /\ mergedLog = << <<"c0_sum", (1 :> 10)>>, <<"c0_sum", (2 :> 20)>>,
                      <<"c0_sum", (1 :> 30)>> >>
    /\ listener.pc = "l181"
    /\ valueCache = ("c0_sum" :> ((1 :> 30) @@ (2 :> 20)))

-----------------------------------------------------------------------------
\* C21: when an acquisition loop that stop() has ended releases the device
\* (a_in_scan_stop and a_in_scan_cleanup), no task dispatched to the pool is
\* outstanding.
C21_NoTaskAtRelease ==
    [][\A t \in DOMAIN threads :
          (/\ mainPc \in {"m369", "m369w"}
           /\ threads[t].scan # "released"
           /\ threads'[t].scan = "released")
              => tasks = {}]_vars

\* C25: a call of start() on an interface that was started ends by
\* returning False (it is refused): it never ends with an exception.
C25_SecondStartRefused == dbMainPc # "raised"

\* C28: a writeback that has found the cache non-empty and holds the
\* semaphore inserts everything that is in the cache, then leaves the cache
\* empty, then commits what it inserted to the current database file.
C28_WritebackWritesAll ==
    [][ /\ (writerPc = "w237" /\ writerPc' # writerPc)
            => (writerPc' = "w258" /\ pending' = valueCache)
        /\ (writerPc = "w258" /\ writerPc' # writerPc)
            => (valueCache' = EmptyDict /\ pending' = pending)
        /\ (writerPc = "w261" /\ writerPc' # writerPc)
            => committed' = Append(committed, <<dbFile, pending>>) ]_vars

\* C29: whenever neither a merge nor a writeback is in progress, the write
\* semaphore is free.
C29_SemaphoreFreeAfterWriteback ==
    (listener.pc \notin MergePositions /\ writerPc \notin WritebackPositions)
        => writeSemaphore = 1

-----------------------------------------------------------------------------
\* The shutdown of Sentinel.main, lines 112-113, with the database interface:
\* the processing tasks put fragments until DataAquisition.stop() has put
\* the end symbol and returned (sentPc from "s112" to "s113"), then
\* DatabaseInterface.stop() is called.

\* The objects processingFunction puts.
DbFragments == {o \in DbObjects : o # NoneObj /\ o # EndSymbol}

\* processingFunction, line 317: a task of the pool puts a fragment.
ShutdownPut ==
    /\ sentPc = "s112"
    /\ puts < MaxPuts
    /\ \E o \in DbFragments : dbIfQueue' = Append(dbIfQueue, o)
    /\ puts' = puts + 1
    /\ UNCHANGED <<otherVars, dbRunThread, dbMainPc, listener, writerPc,
                   valueCache, writeSemaphore, pending, committed, dbFile,
                   writeCycleCounter, mergedLog, writebacks>>

\* Sentinel.main, line 112: DataAquisition.stop() has ended the pool, put
\* the end symbol (line 373 of DataAquisition.py) and returned.
ShutdownStopDaq ==
    /\ sentPc = "s112"
    /\ dbMainPc = "running"
    /\ dbIfQueue' = Append(dbIfQueue, EndSymbol)
    /\ sentPc' = "s113"
    /\ UNCHANGED <<measConfCount, mainPc, joinTarget, runThread,
                   activeMeasConfigIdx, currCfg, workerThread, threads,
                   changeMeasConfSem, timerState, procs, poolRunning, tasks,
                   gpioQueue, calls, polls, callLog, procVars, dbVars,
                   configFile, configValid, configDict, heap, handedOut,
                   gpioStarted>>

\* Sentinel.main, line 113: DatabaseInterface.stop() is called.
ShutdownStopDb == sentPc = "s113" /\ DbStopClearFlag

NextShutdown ==
    \/ ShutdownPut
    \/ DbStart
    \/ ShutdownStopDaq
    \/ ShutdownStopDb
    \/ DbStopJoinWorker
    \/ DbStopJoinListener
    \/ ListenerStep
    \/ WriterStep

InitShutdown ==
    /\ DaqInit /\ measConfCount = Len(MeasurementConfigs)
    /\ ProcIdle /\ DbInit
    /\ sentPc = "s112"
    /\ configFile = "valid"
    /\ configValid = "valid"
    /\ configDict = << >>
    /\ heap = << >>
    /\ handedOut = << >>
    /\ gpioStarted = FALSE
    /\ GpioObject

SpecShutdown == InitShutdown /\ [][NextShutdown]_vars

\* C27: when DatabaseInterface.stop() has returned at the end of the
\* shutdown sequence, no fragment is left on the queue, in the cache or
\* inserted without a commit: every fragment put before the end symbol has
\* been merged and written.
C27_ShutdownLosesNothing ==
    dbMainPc = "stopped" =>
        /\ \A i \in DOMAIN dbIfQueue : dbIfQueue[i] \notin DbFragments
        /\ valueCache = EmptyDict
        /\ pending = EmptyDict

-----------------------------------------------------------------------------
\* SentinelConfig: the configuration object and getConfig.  The dicts and
\* lists that json.load builds are objects of a heap, so that a copy and the
\* object it was made from can be told apart: an object is a sequence of
\* cells, a cell holds a number or refers to another object.

Atom(v) == [kind |-> "atom", v |-> v]

Ref(o) == [kind |-> "ref", v |-> o]

\* The three configuration domains (lines 24, 39 and 68) and a key that is
\* none of them (line 28).
ConfigDomains == {"DatabaseConfig", "MeasurmentConfig", "MeasurementControl"}

ConfigKeys == ConfigDomains \cup {"DatabaseName"}

\* json.load, line 99: the objects of a file with n measurement
\* configurations.  Object 1 is the database configuration (name, write
\* intervall), object 2 the list of the measurement configurations, objects
\* 3..n+2 these configurations (name, scan rate), object n+3 the measurement
\* control (output pins, switch timer) and object n+4 its list of pins.  A
\* "partial" file has no measurement control.
FileHeap(file, n) ==
    LET base == << <<Atom(7), Atom(5)>>, [i \in 1..n |-> Ref(i + 2)] >>
                \o [i \in 1..n |-> <<Atom(i - 1),
                                     Atom(MeasurementConfigs[i].ScanRate)>>]
    IN  CASE file = "valid" ->
                base \o << <<Ref(n + 4), Atom(10)>>, <<Atom(11), Atom(13)>> >>
          [] file = "partial" -> base
          [] OTHER -> << >>

\* self.__configDict after line 99: the domains of the file.
FileDict(file, n) ==
    CASE file = "valid" ->
            ("DatabaseConfig" :> 1) @@ ("MeasurmentConfig" :> 2)
                @@ ("MeasurementControl" :> n + 3)
      [] file = "partial" -> ("DatabaseConfig" :> 1) @@ ("MeasurmentConfig" :> 2)
      [] OTHER -> << >>

\* SentinelConfig.__init__, lines 93-104: a missing file and a file that
\* holds null give an object that is not valid.
FileValid(file) == IF file \in {"valid", "partial"} THEN "valid" ELSE "invalid"

\* What an object holds, with the objects it refers to in place.
RECURSIVE DeepValue(_, _)
DeepValue(h, o) ==
    [k \in 1..Len(h[o]) |->
        IF h[o][k].kind = "ref" THEN DeepValue(h, h[o][k].v) ELSE h[o][k].v]

\* The objects that can be reached from an object.
RECURSIVE Reachable(_, _)
Reachable(h, o) ==
    {o} \cup UNION {Reachable(h, h[o][k].v) :
                        k \in {j \in 1..Len(h[o]) : h[o][j].kind = "ref"}}

\* copy.copy: a new object with the cells of the old one.
shallowcopy(h, o) == [heap |-> Append(h, h[o]), root |-> Len(h) + 1]

\* copy.deepcopy, lines 145-149: a new object whose cells refer to deep
\* copies of the objects the old cells refer to.
RECURSIVE deepcopy(_, _)
RECURSIVE CopyCells(_, _, _, _)
CopyCells(h, o, k, acc) ==
    IF k > Len(h[o]) THEN [heap |-> h, cells |-> acc]
    ELSE IF h[o][k].kind = "ref"
         THEN LET r == deepcopy(h, h[o][k].v)
              IN  CopyCells(r.heap, o, k + 1, Append(acc, Ref(r.root)))
         ELSE CopyCells(h, o, k + 1, Append(acc, h[o][k]))

deepcopy(h, o) ==
    LET r == CopyCells(h, o, 1, << >>)
    IN  [heap |-> Append(r.heap, r.cells), root |-> Len(r.heap) + 1]

\* getConfig, lines 139-152: what a call with configDomain ends with.
GetConfigOutcome(configDomain) ==
    IF configValid # "valid" THEN "Exception"
    ELSE IF configDomain \notin ConfigDomains THEN "ValueError"
    ELSE IF configDomain \notin DOMAIN configDict THEN "KeyError"
    ELSE "returned"

\* A caller calls getConfig(configDomain); handedOut records how the call
\* ended and the object it returned.
GetConfig(configDomain) ==
    /\ sentPc = "idle"
    /\ Len(handedOut) < MaxGets
    /\ IF GetConfigOutcome(configDomain) = "returned"
       THEN LET r == deepcopy(heap, configDict[configDomain])
            IN  /\ heap' = r.heap
                /\ handedOut' = Append(handedOut,
                                       [outcome |-> "returned",
                                        domain |-> configDomain,
                                        root |-> r.root])
       ELSE /\ heap' = heap
            /\ handedOut' = Append(handedOut,
                                   [outcome |-> GetConfigOutcome(configDomain),
                                    domain |-> configDomain,
                                    root |-> 0])
    /\ UNCHANGED <<daqVars, procVars, dbVars, sentPc, configFile,
                   configValid, configDict, gpioStarted>>

\* A caller changes a value in something getConfig returned to it: a number
\* in the returned object or in an object reached from it becomes 99.
CallerChange ==
    /\ sentPc = "idle"
    /\ \E i \in DOMAIN handedOut :
          /\ handedOut[i].outcome = "returned"
          /\ \E o \in Reachable(heap, handedOut[i].root) :
                \E k \in DOMAIN heap[o] :
                    /\ heap[o][k].kind = "atom"
                    /\ heap[o][k].v # 99
                    /\ heap' = [heap EXCEPT ![o][k] = Atom(99)]
    /\ UNCHANGED <<daqVars, procVars, dbVars, sentPc, configFile,
                   configValid, configDict, handedOut, gpioStarted>>

NextConfig == (\E d \in ConfigKeys : GetConfig(d)) \/ CallerChange

\* The configuration object constructed from a file that is missing, holds
\* null, is valid, or lacks a domain.
InitConfig ==
    /\ DaqInit /\ ProcIdle /\ DbInit
    /\ sentPc = "idle"
    /\ configFile \in {"missing", "null", "valid", "partial"}
    /\ configValid = FileValid(configFile)
    /\ configDict = FileDict(configFile, measConfCount)
    /\ heap = FileHeap(configFile, measConfCount)
    /\ handedOut = << >>
    /\ gpioStarted = FALSE
    /\ GpioObject

SpecConfig == InitConfig /\ [][NextConfig]_vars

\* What the file holds for a domain.
FileValue(d) ==
    DeepValue(FileHeap(configFile, measConfCount),
              FileDict(configFile, measConfCount)[d])

\* The stored configuration and the valid flag are those of the construction.
ConfigUnchanged ==
    /\ configValid = FileValid(configFile)
    /\ configDict = FileDict(configFile, measConfCount)
    /\ \A d \in DOMAIN configDict : DeepValue(heap, configDict[d]) = FileValue(d)

\* The objects of the stored configuration and of the values returned by
\* the calls before the last one.
OlderObjects(h, out) ==
    UNION {Reachable(h, configDict[d]) : d \in DOMAIN configDict}
        \cup UNION {Reachable(h, out[i].root) :
                        i \in {j \in 1..(Len(out) - 1) : out[j].root # 0}}

\* A getConfig call ends as the file and the key say, and what it returns
\* holds what the file holds for the domain and shares no object with the
\* stored configuration or with a value returned before.
GetConfigContract(missingDomainOutcome) ==
    Len(handedOut') > Len(handedOut) =>
        LET e == handedOut'[Len(handedOut')]
        IN  /\ e.outcome =
                  IF configFile \in {"missing", "null"} THEN "Exception"
                  ELSE IF e.domain \notin ConfigDomains THEN "ValueError"
                  ELSE IF configFile = "partial"
                          /\ e.domain = "MeasurementControl"
                       THEN missingDomainOutcome
                  ELSE "returned"
            /\ e.outcome = "returned" =>
                  /\ DeepValue(heap', e.root) = FileValue(e.domain)
                  /\ Reachable(heap', e.root)
                        \cap OlderObjects(heap', handedOut') = {}

-----------------------------------------------------------------------------
\* Sentinel.main, lines 48-115.  The constructors of the components are
\* modelled by the getConfig calls they make and the objects they build.

\* The fields of the database interface other than the caller's position.
dbFields == <<dbRunThread, listener, writerPc, valueCache, writeSemaphore,
              pending, committed, dbFile, writeCycleCounter, changeIntervall,
              mergedLog, puts, writebacks, gpioVars>>

\* isValid(), lines 106-114, as main uses it in line 69.
ConfigUsableAlways == TRUE

ConfigUsable == configValid = "valid"

\* GpioHandler.start, lines 117-127, has no return statement.
GpioStartResult == "None"

\* The two getConfig calls of a constructor: both return, or one raises.
ConstructorGets(d1, d2) ==
    /\ GetConfigOutcome(d1) = "returned"
    /\ GetConfigOutcome(d2) = "returned"

\* The heap after the two getConfig calls of a constructor.
HeapAfterGets(d1, d2) ==
    deepcopy(deepcopy(heap, configDict[d1]).heap, configDict[d2]).heap

\* Line 68 and SentinelConfig.__init__, lines 93-104: a file that is not
\* JSON makes json.load raise, and main ends with that exception.
MainLoadConfig ==
    /\ sentPc = "s68"
    /\ IF configFile = "malformed"
       THEN /\ sentPc' = "crashed"
            /\ UNCHANGED <<configValid, configDict, heap>>
       ELSE /\ sentPc' = "s69"
            /\ configValid' = FileValid(configFile)
            /\ configDict' = FileDict(configFile, measConfCount)
            /\ heap' = FileHeap(configFile, measConfCount)
    /\ UNCHANGED <<daqVars, procVars, dbVars, configFile, handedOut,
                   gpioStarted>>

\* Lines 69-71.
MainCheckConfig ==
    /\ sentPc = "s69"
    /\ sentPc' = IF ConfigUsable THEN "s74" ELSE "returned"
    /\ UNCHANGED <<daqVars, procVars, dbVars, configFile, configValid,
                   configDict, heap, handedOut, gpioStarted>>

\* Lines 74-76 and DatabaseInterface.__init__, lines 51-54: a getConfig
\* call that raises ends main with the exception.
MainConstructDb ==
    /\ sentPc = "s74"
    /\ IF ConstructorGets("DatabaseConfig", "MeasurmentConfig")
       THEN /\ sentPc' = "s78"
            /\ dbMainPc' = "d117"
            /\ heap' = HeapAfterGets("DatabaseConfig", "MeasurmentConfig")
       ELSE /\ sentPc' = "crashed"
            /\ UNCHANGED <<dbMainPc, heap>>
    /\ UNCHANGED <<daqVars, procVars, dbFields, configFile, configValid,
                   configDict, handedOut, gpioStarted>>

\* Lines 78-80: start() has returned True.
MainDbStarted ==
    /\ sentPc = "s78"
    /\ dbMainPc = "running"
    /\ sentPc' = "s83"
    /\ UNCHANGED <<daqVars, procVars, dbVars, configFile, configValid,
                   configDict, heap, handedOut, gpioStarted>>

\* Lines 83-85 and GpioHandler.__init__, lines 89-97.
MainConstructGpio ==
    /\ sentPc = "s83"
    /\ IF ConstructorGets("MeasurementControl", "MeasurmentConfig")
       THEN /\ sentPc' = "s87"
            /\ heap' = HeapAfterGets("MeasurementControl", "MeasurmentConfig")
       ELSE /\ sentPc' = "crashed"
            /\ UNCHANGED heap
    /\ UNCHANGED <<daqVars, procVars, dbVars, configFile, configValid,
                   configDict, handedOut, gpioStarted>>

\* Lines 87-91 and GpioHandler.start, lines 123-127: the outputs are set up,
\* start() returns None, main takes that for a failure and returns.
MainStartGpio ==
    /\ sentPc = "s87"
    /\ gpioStarted' = TRUE
    /\ sentPc' = IF GpioStartResult \in {"None", "False"} THEN "returned"
                 ELSE "s94"
    /\ UNCHANGED <<daqVars, procVars, dbVars, configFile, configValid,
                   configDict, heap, handedOut>>

\* The steps of main and of the threads main has started.  No producer is
\* started, so the queue stays empty: the listener waits in get and the
\* writeback finds the cache empty.
NextMain ==
    \/ MainLoadConfig
    \/ MainCheckConfig
    \/ MainConstructDb
    \/ DbStart
    \/ MainDbStarted
    \/ MainConstructGpio
    \/ MainStartGpio
    \/ ListenerCheck
    \/ WriterCreate
    \/ WriterCheck
    \/ WriterPeek
    \/ WriterCount

\* Sentinel.__init__, lines 27-46, and a configuration file that is
\* missing, holds null, is not JSON, is complete or lacks a domain.
InitMain ==
    /\ DaqInit /\ ProcIdle /\ DbObject
    /\ dbMainPc = "absent"
    /\ sentPc = "s68"
    /\ configFile \in {"missing", "null", "malformed", "valid", "partial"}
    /\ configValid = "unset"
    /\ configDict = << >>
    /\ heap = << >>
    /\ handedOut = << >>
    /\ gpioStarted = FALSE
    /\ GpioObject

SpecMain == InitMain /\ [][NextMain]_vars

\* No thread of the database interface has been started or is running.
NoDbThread ==
    /\ listener.pc \in {"new", "ended"}
    /\ writerPc \in {"new", "closed", "failed"}

\* C22: with a configuration file that is missing or holds null (the
\* configuration object is not valid) main goes from the validity test to
\* its return, and with a file that is not JSON main ends in the
\* constructor of the configuration object; in these runs no component is
\* constructed or started.
C22_InvalidConfigStartsNothing ==
    configFile \in {"missing", "null", "malformed"} =>
        /\ sentPc \in (IF configFile = "malformed" THEN {"s68", "crashed"}
                       ELSE {"s68", "s69", "returned"})
        /\ dbMainPc = "absent"
        /\ ~dbRunThread
        /\ listener.pc = "new"
        /\ writerPc = "new"
        /\ ~gpioStarted
        /\ mainPc = "m133"
        /\ ~runThread

\* main has returned on a configuration object that is not valid.
C22_Witness ==
    /\ sentPc = "returned"
    /\ configFile = "null"
    /\ configValid = "invalid"
    /\ dbMainPc = "absent"

\* C23: when main has given up, by a return or an exception, no thread of
\* the database interface is left running.
C23_AbortStopsStarted == sentPc \in {"returned", "crashed"} => NoDbThread

-----------------------------------------------------------------------------
\* DataAquisition.__doCalculation, lines 378-407, called on its own.

\* Expressions over the channel tags: each tag once, a tag twice, a tag
\* that is no channel, and the operators of the arithmetic.
CalcExpressions ==
    { <<"A">>, <<"-", "A">>, <<"A", "+", "B">>, <<"A", "-", "B">>,
      <<"A", "*", "B">>, <<"2", "*", "A">>, <<"B", "-", "A", "*", "2">>,
      <<"A", "*", "*", "2">>, <<"2", "*", "*", "3", "-", "A">>,
      <<"A", "*", "*", "2", "+", "B">>, <<"A", "*", "A">>,
      <<"A", "+", "A", "B">> }

\* Channel maps: one tag, two tags, and a tag that is part of another.
CalcChannelMaps ==
    { << <<0, <<"A">> >> >>,
      << <<0, <<"A">> >>, <<1, <<"B">> >> >>,
      << <<0, <<"A">> >>, <<1, <<"A", "B">> >> >> }

CalcValues == -2..2

\* The tags of a channel map.
TagsOf(channelDict) == {channelDict[i][2] : i \in 1..Len(channelDict)}

CalcInit ==
    /\ pPc = "calc"
    /\ pOut = << >>
    /\ \E expr \in CalcExpressions, channels \in CalcChannelMaps :
          \E values \in [TagsOf(channels) -> CalcValues] :
              pIn = [expr |-> expr, channels |-> channels, values |-> values]

InitCalc ==
    /\ DaqInit /\ measConfCount = Len(MeasurementConfigs)
    /\ CalcInit /\ DbInit /\ SysIdle

\* Lines 403-407: the call returns the value or ends with eval's exception.
CalcCall ==
    /\ pPc = "calc"
    /\ pOut' = doCalculation(pIn.expr, pIn.channels, pIn.values)
    /\ pPc' = IF pOut'.ok THEN "calculated" ELSE "raised"
    /\ UNCHANGED <<pIn, daqVars, dbVars, sysVars>>

NextCalc == CalcCall

SpecCalc == InitCalc /\ [][NextCalc]_vars

\* Number of positions of s at which tag starts.
Occurrences(s, tag) == Cardinality({i \in 1..Len(s) : MatchAt(s, tag, i)})

\* tag is a part of the text s.
IsPartOf(tag, s) == Occurrences(s, tag) > 0

\* A tag that could be part of a numeric literal is made of digits and dots.
LiteralLike(tag) == \A k \in 1..Len(tag) : IsDigit(tag[k]) \/ tag[k] = "."

\* Each tag is once in the expression, and no tag is part of another tag
\* or of a numeric literal.
CalcTagsOnce ==
    \A tag \in TagsOf(pIn.channels) :
        /\ Occurrences(pIn.expr, tag) = 1
        /\ ~LiteralLike(tag)
        /\ \A other \in TagsOf(pIn.channels) \ {tag} : ~IsPartOf(tag, other)

RECURSIVE TokenizeBound(_, _, _)
\* The tokens of the expression when the tags are names bound to the
\* channel values: a tag is one operand, whatever the sign of its value,
\* and the longest tag that starts at a position is the name there.
TokenizeBound(s, i, channelValues) ==
    IF i > Len(s) THEN <<>>
    ELSE LET here == {tg \in DOMAIN channelValues : MatchAt(s, tg, i)}
             tag  == CHOOSE tg \in here : \A o \in here : Len(o) <= Len(tg)
             tk   == IF here # {}
                     THEN <<[k |-> "num", n |-> channelValues[tag], op |-> ""],
                            i + Len(tag)>>
                     ELSE TokenAt(s, i)
         IN  IF tk[1].k = "bad" THEN <<NoTok>>
             ELSE <<tk[1]>> \o TokenizeBound(s, tk[2], channelValues)

\* eval(expr, channelValues): the expression with its tags bound as names.
EvalBound(expr, channelValues) ==
    EvalTokens(TokenizeBound(expr, 1, channelValues))

\* C26: for tags that are each once in the expression, and none part of
\* another tag or of a numeric literal, the call of __doCalculation gives
\* what the expression gives with each tag bound as a name to its value.
C26_SubstitutionIsBinding ==
    (pPc \in {"calculated", "raised"} /\ CalcTagsOnce) =>
        pOut = EvalBound(pIn.expr, pIn.values)

-----------------------------------------------------------------------------
\* The acquisition when every thread that can go on does go on: the loop
\* threads, the threads that run changeMeasConfig, and the pool's workers.

\* The largest number of thread objects of a run: the one of __init__ and
\* one for each changeMeasConfig call.
MaxThreads == MaxCalls + 1

SpecFair ==
    /\ Init /\ [][Next]_vars
    /\ \A t \in 1..MaxThreads : WF_vars(t \in DOMAIN threads /\ ScanStep(t))
    /\ \A p \in Procs : WF_vars(CmcStep(p))

\* Process p is inside changeMeasConfig, lines 332-360.
InChangeMeasConfig(p) ==
    procs[p].pc \in {"c332", "c335", "c336", "c344", "c348", "c351", "c356",
                     "c360"}

-----------------------------------------------------------------------------
\* The shutdown sequence when every thread that can go on does go on: the
\* listener thread, the writeback thread and the thread of main inside
\* DatabaseInterface.stop().
SpecShutdownFair ==
    /\ InitShutdown /\ [][NextShutdown]_vars
    /\ WF_vars(ListenerStep)
    /\ WF_vars(WriterStep)
    /\ WF_vars(DbStopJoinWorker)
    /\ WF_vars(DbStopJoinListener)

\* C31: in the shutdown sequence a call of DatabaseInterface.stop() that
\* has cleared the run flag returns: both joins come back, whatever the
\* queue holds and whoever holds the write semaphore at that moment.
C31_StopReturns == (dbMainPc = "d132") ~> (dbMainPc = "stopped")

-----------------------------------------------------------------------------
\* Claims about the configuration-switch timer, checked under Spec.

\* The thread of the timer leaves position pc in this step.
TimerLeaves(pc) == procs[TimerProc].pc = pc /\ procs'[TimerProc].pc # pc

\* What one step does when it belongs to a firing of the timer.
TimerContract ==
    /\ (TimerLeaves("t415") /\ runThread) =>
          /\ procs'[TimerProc].pc = "c332"
          /\ procs'[TimerProc].arg = (activeMeasConfigIdx + 1) % measConfCount
    /\ (TimerLeaves("t415") /\ ~runThread) =>
          /\ procs'[TimerProc].pc = "idle"
          /\ timerState' = "fired"
          /\ UNCHANGED <<activeMeasConfigIdx, timerState, gpioQueue, runThread,
                         threads, workerThread, changeMeasConfSem>>
    /\ (TimerLeaves("c344") /\ procs'[TimerProc].pc = "c348") =>
          /\ activeMeasConfigIdx' = procs[TimerProc].arg
          /\ activeMeasConfigIdx' = (activeMeasConfigIdx + 1) % measConfCount
    /\ TimerLeaves("t426") =>
          /\ timerState' = "armed"
          /\ procs'[TimerProc].pc = "idle"
    /\ (NoDirectCall /\ activeMeasConfigIdx' # activeMeasConfigIdx) =>
          TimerLeaves("c344")
    /\ (timerState # "armed" /\ timerState' = "armed") =>
          (TimerLeaves("t426") \/ mainPc = "m137")

\* C32: a firing of the timer that finds the run flag set calls
\* changeMeasConfig with (i + 1) mod n for the active index i and n
\* configurations, the call changes the active index to the successor of
\* the index it replaces, and the timer is armed again when the call has
\* returned; a firing that finds the flag cleared changes nothing and arms
\* no timer.
C32_TimerStepsThroughConfigs == [][TimerContract]_vars


\* With one configuration, in every state: the timer has not been started,
\* its function is not running, and the active index and every relay
\* notification are 0.
SingleConfigState ==
    measConfCount = 1 =>
        /\ timerState \in {"new", "cancelled"}
        /\ procs[TimerProc].pc = "idle"
        /\ activeMeasConfigIdx = 0
        /\ \A i \in 1..Len(gpioQueue) : gpioQueue[i] = 0
        /\ NoDirectCall => Len(gpioQueue) <= 1

\* With one configuration, a relay notification after the initial one is
\* put by a thread that called changeMeasConfig itself.
SingleConfigRelay ==
    (measConfCount = 1 /\ gpioQueue' # gpioQueue /\ gpioQueue # << >>) =>
        \E c \in Callers : procs[c].pc = "c348" /\ procs'[c].pc = "c351"

\* C33: with exactly one measurement configuration the timer is never
\* started, so no reconfiguration is driven by the timer: the active index
\* stays 0 and the initial index 0 is the only relay notification that does
\* not come from a direct call of changeMeasConfig.
C33_SingleConfigNoTimer == []SingleConfigState /\ [][SingleConfigRelay]_vars

\* start() has returned with one configuration, the loop has read the
\* device, and the timer was never started.
C33_Witness ==
    /\ measConfCount = 1
    /\ mainPc = "input"
    /\ gpioQueue = <<0>>
    /\ timerState = "new"
    /\ polls = MaxPolls
    /\ NoDirectCall

-----------------------------------------------------------------------------
\* The database interface with every change interval (SpecChange): 0 for no
\* change of the file, and a change after every writeback up to one after
\* the last writeback of the run.

ChangeIntervalls == 0..MaxWritebacks

NextChange ==
    \/ DbPut
    \/ DbStart
    \/ DbStopClearFlag
    \/ DbStopJoinWorker
    \/ DbStopJoinListener
    \/ ListenerStep
    \/ WriterStep

InitChange ==
    /\ DaqInit /\ measConfCount = Len(MeasurementConfigs)
    /\ ProcIdle /\ SysIdle
    /\ \E c \in ChangeIntervalls : DbObjectWith(c)
    /\ dbMainPc = "d117"

SpecChange == InitChange /\ [][NextChange]_vars

\* The writeback thread is at the loop condition, line 201.
AtLoopStart == writerPc = "w201"

\* At the start of a loop iteration: the counter is below the interval, it
\* counts the writebacks since the last change, and one file was opened at
\* the start and one more after every changeIntervall-th writeback; with
\* the interval 0 only the first file is ever opened.
ChangeState ==
    /\ (AtLoopStart /\ changeIntervall > 0) =>
          /\ writeCycleCounter < changeIntervall
          /\ writeCycleCounter = writebacks % changeIntervall
          /\ dbFile = 1 + (writebacks \div changeIntervall)
    /\ changeIntervall = 0 => dbFile <= 1

\* A step that opens a database file after the first one.
FileChanged == dbFile' # dbFile /\ dbFile >= 1

\* A file is changed by the writeback thread alone, behind the
\* changeIntervall-th writeback since the last change; the counter is reset,
\* nothing is inserted and uncommitted when the connection is closed, and
\* the cache and the queue keep what they hold.
ChangeStep ==
    FileChanged =>
        /\ writerPc = "w210" /\ writerPc' = "w201"
        /\ changeIntervall > 0
        /\ writeCycleCounter + 1 = changeIntervall
        /\ writeCycleCounter' = 0
        /\ dbFile' = dbFile + 1
        /\ pending = EmptyDict
        /\ UNCHANGED <<valueCache, committed, dbIfQueue, listener, mergedLog>>

\* C34: with a change interval c > 0 the writeback thread opens a database
\* file after every c-th writeback and resets the write-cycle counter, which
\* is below c at the start of every loop iteration; with c = 0 no file is
\* opened after the first; a change of the file loses no point that was
\* merged before it.
C34_FileChangeEveryCth == []ChangeState /\ [][ChangeStep]_vars

\* The file has been changed after the second writeback while the cache
\* holds points merged before the change, and points are committed.
C34_Witness ==
    /\ changeIntervall = 2
    /\ dbFile = 2
    /\ writeCycleCounter = 0
    /\ writerPc = "w201"
    /\ valueCache # EmptyDict
    /\ committed # << >>

-----------------------------------------------------------------------------
\* The GPIO handler (SpecGpio): applyMeasConfig calls from any thread and
\* the Timer threads of the output state machine.  Line 173 of
\* GpioHandler.py is read as the comment it stands for.

\* What the steps of the GPIO handler leave alone.
nonGpioVars == <<daqVars, procVars, dbRunThread, dbMainPc, listener, writerPc,
                 valueCache, writeSemaphore, pending, committed, dbFile,
                 writeCycleCounter, changeIntervall, mergedLog, puts,
                 writebacks, sysVars>>

\* __init__, lines 98-101: MeasurmentConfig[idx][OutputState] of the
\* configuration file, one direction of the current each.
OutputStates == <<TRUE, FALSE>>

ConfigIndices == 0..(Len(OutputStates) - 1)

\* The thread of an applyMeasConfig(measIndx) call, before line 303.
CallThread(measIndx) ==
    [kind |-> "call", pc |-> "g303", arg |-> measIndx, state |-> -1,
     idx |-> -1, todo |-> << >>]

\* A Timer started in line 200 or 256; arg keeps the index of the call
\* whose sequence the timer belongs to.
TimerThread(kind, measIndx) ==
    [kind |-> kind, pc |-> "armed", arg |-> measIndx, state |-> -1,
     idx |-> -1, todo |-> << >>]

\* __handleOutput, lines 148-280: the GPIO.output calls of one step, in
\* the order of the code, for the state and the output state it has read.
OutputWrites(state, outputState) ==
    IF state = OUTPUT_STATE_IDLE
    THEN IF outputState
         THEN << <<IDX_TRANS_B, FALSE>>, <<IDX_TRANS_C, FALSE>>,
                 <<IDX_TRANS_A, TRUE>>, <<IDX_TRANS_D, TRUE>> >>
         ELSE << <<IDX_TRANS_A, FALSE>>, <<IDX_TRANS_D, FALSE>>,
                 <<IDX_TRANS_B, TRUE>>, <<IDX_TRANS_C, TRUE>> >>
    ELSE IF state = OUTPUT_STATE_DRIVE
    THEN IF outputState
         THEN << <<IDX_TRANS_B, FALSE>>, <<IDX_TRANS_C, FALSE>>,
                 <<IDX_TRANS_A, TRUE>>, <<IDX_TRANS_D, FALSE>> >>
         ELSE << <<IDX_TRANS_B, FALSE>>, <<IDX_TRANS_C, TRUE>>,
                 <<IDX_TRANS_A, FALSE>>, <<IDX_TRANS_D, FALSE>> >>
    ELSE << <<IDX_TRANS_B, FALSE>>, <<IDX_TRANS_C, FALSE>>,
            <<IDX_TRANS_A, FALSE>>, <<IDX_TRANS_D, FALSE>> >>

\* Every call is a thread and starts at most two Timer threads.
GpioThreadIds == 1..(3 * MaxApplies)

\* Thread t exists and stands at pc.
At(t, pc) == t \in DOMAIN gpioThreads /\ gpioThreads[t].pc = pc

\* A thread calls applyMeasConfig(measIndx).
GpioCall ==
    /\ Cardinality({t \in DOMAIN gpioThreads : gpioThreads[t].kind = "call"})
          < MaxApplies
    /\ \E measIndx \in ConfigIndices :
          gpioThreads' = Append(gpioThreads, CallThread(measIndx))
    /\ UNCHANGED <<nonGpioVars, outputStateMachine, activemeasConfIdx,
                   outputStateSem, gpioOut>>

\* applyMeasConfig, line 303: the index is stored.
ApplyStoreIndex(t) ==
    /\ At(t, "g303")
    /\ activemeasConfIdx' = gpioThreads[t].arg
    /\ gpioThreads' = [gpioThreads EXCEPT ![t].pc = "g306"]
    /\ UNCHANGED <<nonGpioVars, outputStateMachine, outputStateSem, gpioOut>>

\* applyMeasConfig, lines 306-309: the semaphore is acquired and
\* __handleOutput is called.
ApplyAcquire(t) ==
    /\ At(t, "g306")
    /\ outputStateSem > 0
    /\ outputStateSem' = outputStateSem - 1
    /\ gpioThreads' = [gpioThreads EXCEPT ![t].pc = "h148"]
    /\ UNCHANGED <<nonGpioVars, outputStateMachine, activemeasConfIdx, gpioOut>>

\* threading.Timer: after its interval the timer's thread calls
\* __handleOutput.
TimerExpire(t) ==
    /\ At(t, "armed")
    /\ gpioThreads' = [gpioThreads EXCEPT ![t].pc = "h148"]
    /\ UNCHANGED <<nonGpioVars, outputStateMachine, activemeasConfIdx,
                   outputStateSem, gpioOut>>

\* __handleOutput, lines 148-150, 203-204 and 259: the state and the index
\* are read and the branch is taken.
HandleEnter(t) ==
    /\ At(t, "h148")
    /\ gpioThreads' =
          [gpioThreads EXCEPT
              ![t].pc = "hOut",
              ![t].state = outputStateMachine,
              ![t].idx = activemeasConfIdx,
              ![t].todo = OutputWrites(outputStateMachine,
                                       OutputStates[activemeasConfIdx + 1])]
    /\ UNCHANGED <<nonGpioVars, outputStateMachine, activemeasConfIdx,
                   outputStateSem, gpioOut>>

\* One GPIO.output call of the branch.
HandleOutput(t) ==
    /\ At(t, "hOut")
    /\ gpioThreads[t].todo # << >>
    /\ gpioOut' = [gpioOut EXCEPT ![Head(gpioThreads[t].todo)[1]] =
                                      Head(gpioThreads[t].todo)[2]]
    /\ gpioThreads' = [gpioThreads EXCEPT ![t].todo = Tail(@)]
    /\ UNCHANGED <<nonGpioVars, outputStateMachine, activemeasConfIdx,
                   outputStateSem>>

\* The thread object of a call or a timer that has returned.
Returned(th) == [th EXCEPT !.pc = "done", !.state = -1, !.idx = -1]

\* __handleOutput, lines 196-200, 252-256 and 283-286: the new state is
\* set; the next Timer is started or the semaphore is released.
HandleLeave(t) ==
    /\ At(t, "hOut")
    /\ gpioThreads[t].todo = << >>
    /\ IF gpioThreads[t].state = OUTPUT_STATE_IDLE
       THEN /\ outputStateMachine' = OUTPUT_STATE_DRIVE
            /\ gpioThreads' =
                  Append([gpioThreads EXCEPT ![t] = Returned(@)],
                         TimerThread("drive", gpioThreads[t].arg))
            /\ UNCHANGED outputStateSem
       ELSE IF gpioThreads[t].state = OUTPUT_STATE_DRIVE
       THEN /\ outputStateMachine' = OUTPUT_STATE_FLYBACK
            /\ gpioThreads' =
                  Append([gpioThreads EXCEPT ![t] = Returned(@)],
                         TimerThread("flyback", gpioThreads[t].arg))
            /\ UNCHANGED outputStateSem
       ELSE /\ outputStateMachine' = OUTPUT_STATE_IDLE
            /\ outputStateSem' = outputStateSem + 1
            /\ gpioThreads' = [gpioThreads EXCEPT ![t] = Returned(@)]
    /\ UNCHANGED <<nonGpioVars, activemeasConfIdx, gpioOut>>

GpioStep(t) ==
    \/ ApplyStoreIndex(t)
    \/ ApplyAcquire(t)
    \/ TimerExpire(t)
    \/ HandleEnter(t)
    \/ HandleOutput(t)
    \/ HandleLeave(t)

NextGpio ==
    \/ GpioCall
    \/ \E t \in GpioThreadIds : GpioStep(t)

InitGpio ==
    /\ DaqInit /\ measConfCount = Len(MeasurementConfigs)
    /\ ProcIdle /\ DbInit /\ SysIdle

SpecGpio == InitGpio /\ [][NextGpio]_vars

\* The threads that are inside __handleOutput.
InHandleOutput == {t \in DOMAIN gpioThreads : gpioThreads[t].pc \in {"h148", "hOut"}}

\* The threads of a sequence that has begun and has not returned to idle.
InSequence ==
    {t \in DOMAIN gpioThreads : gpioThreads[t].pc \in {"h148", "hOut", "armed"}}

\* The step of a thread inside __handleOutput belongs to its place in the
\* sequence: the caller makes the idle step, the drive timer the drive
\* step and the flyback timer the flyback step.
StepOfSequence(th) ==
    th.pc = "hOut" =>
        /\ th.state = OUTPUT_STATE_IDLE => th.kind = "call"
        /\ th.state = OUTPUT_STATE_DRIVE => th.kind = "drive"
        /\ th.state = OUTPUT_STATE_FLYBACK => th.kind = "flyback"

\* The step that switches the transistors for a direction uses the index
\* its sequence was started for.
IndexOfSequence(th) ==
    (th.pc = "hOut" /\ th.state # OUTPUT_STATE_FLYBACK) => th.idx = th.arg

\* C35: the output state machine is entered by one thread at a time; a
\* sequence is one thread after the other through idle, drive and flyback;
\* the semaphore is taken exactly while a sequence is in progress, so a
\* second call waits for the release; and the steps of a sequence use the
\* configuration index of the call that started it.
C35_OneSequenceAtATime ==
    /\ Cardinality(InHandleOutput) <= 1
    /\ Cardinality(InSequence) <= 1
    /\ outputStateSem = IF InSequence = {} THEN 1 ELSE 0
    /\ InSequence = {} => outputStateMachine = OUTPUT_STATE_IDLE
    /\ \A t \in DOMAIN gpioThreads :
          /\ StepOfSequence(gpioThreads[t])
          /\ IndexOfSequence(gpioThreads[t])

\* C36: the transistors of one leg of the H-bridge, A with C and B with
\* D, are never on together, in any state between two GPIO.output calls.
C36_NoShootThrough ==
    /\ ~(gpioOut[IDX_TRANS_A] /\ gpioOut[IDX_TRANS_C])
    /\ ~(gpioOut[IDX_TRANS_B] /\ gpioOut[IDX_TRANS_D])

====
